---- MODULE Spec2Model ----
(***************************************************************************)
(* Model of the inkeep-agents-action run pipeline:                         *)
(*   parseEventContext -> getProjectIdFromTriggerUrl -> getGitHubToken ->  *)
(*   checkBotPRExists -> fetchPRContext -> filters -> payload ->           *)
(*   sendTrigger -> outputs / setFailed.                                   *)
(*                                                                         *)
(* Strings are sequences of tokens (a token is a TLA+ string); the empty   *)
(* string is << >>, which is also what an unset action input reads as.     *)
(***************************************************************************)
EXTENDS Integers, Sequences, FiniteSets, TLC

(***************************************************************************)
(* Bounds of the model                                                     *)
(***************************************************************************)
MaxFiles == 3

MaxComments == 2

MaxPageLen == 2

MaxFilePages == 2

MaxCommentPages == 1

(***************************************************************************)
(* Program constants                                                       *)
(***************************************************************************)
PER_PAGE == 100

PACKAGE_VERSION == <<"0.1.0">>

DEFAULT_API_BASE_URL == <<"https://", "api.pilot.inkeep.com">>

TOKEN_EXCHANGE_PATH == <<"/", "work-apps", "/", "github", "/", "token-exchange">>

OIDC_AUDIENCE == <<"inkeep-agents-action">>

BotLogin == <<"inkeep[bot]">>

\* undefined, for an optional object, an optional string and an optional number
Undefined == [t |-> "undefined"]

UndefinedStr == <<"\\undefined">>

UndefinedNum == -1

(***************************************************************************)
(* Text helpers                                                            *)
(***************************************************************************)
\* sub occurs in text as a contiguous run of tokens (String.includes)
Contains(text, sub) ==
    \E i \in 0..(Len(text) - Len(sub)) :
        \A j \in 1..Len(sub) : text[i + j] = sub[j]

Digits == <<"0", "1", "2", "3", "4", "5", "6", "7", "8", "9">>

\* Number.prototype.toString / template-literal conversion of a natural
RECURSIVE NumberToString(_)
NumberToString(n) ==
    IF n < 10 THEN <<Digits[n + 1]>>
    ELSE NumberToString(n \div 10) \o <<Digits[(n % 10) + 1]>>

\* Array.prototype.indexOf, 1-based; 0 stands for -1
IndexOf(seq, x) ==
    IF \E i \in 1..Len(seq) : seq[i] = x
    THEN CHOOSE i \in 1..Len(seq) : seq[i] = x /\ \A j \in 1..(i - 1) : seq[j] # x
    ELSE 0

\* tokens of seq from position a to position b
Slice(seq, a, b) == [i \in 1..(b - a + 1) |-> seq[a + i - 1]]

RECURSIVE Join(_, _)
Join(segs, sep) ==
    IF Len(segs) = 0 THEN << >>
    ELSE IF Len(segs) = 1 THEN segs[1]
    ELSE segs[1] \o <<sep>> \o Join(Tail(segs), sep)

(***************************************************************************)
(* URL (WHATWG URL as used by new URL(...))                                *)
(***************************************************************************)
\* new URL(s) throws unless s has a scheme and a host
URLValid(s) == Len(s) >= 2 /\ s[1] = "https://" /\ s[2] \notin {"/", "?"}

URLQueryStart(s) == IndexOf(s, "?")

URLOrigin(s) == <<s[1], s[2]>>

\* url.pathname: "/" when the URL has no path
URLPathname(s) ==
    LET q == URLQueryStart(s)
        last == IF q = 0 THEN Len(s) ELSE q - 1
    IN  IF last < 3 THEN <<"/">> ELSE Slice(s, 3, last)

\* url.search: "" when there is no query or the query is a lone "?"
URLSearch(s) ==
    LET q == URLQueryStart(s)
    IN  IF q = 0 \/ q = Len(s) THEN << >> ELSE Slice(s, q, Len(s))

\* sanitizedUrl.search = ''; sanitizedUrl.toString()
URLWithoutSearch(s) == URLOrigin(s) \o URLPathname(s)

\* String.prototype.split('/') of a pathname: the segments between slashes
RECURSIVE SplitSlash(_)
SplitSlash(p) ==
    IF Len(p) = 0 THEN <<"">>
    ELSE IF p[1] = "/" THEN <<"">> \o SplitSlash(Tail(p))
    ELSE IF Len(p) = 1 THEN <<p[1]>>
    ELSE <<p[1]>> \o SplitSlash(Tail(Tail(p)))

(***************************************************************************)
(* minimatch(filename, pattern), default options                           *)
(* File name and pattern are split on "/" into segments; in a pattern      *)
(* segment the token "*" is a wildcard and the segment "**" is a globstar. *)
(***************************************************************************)
\* the segments of str between "/" tokens, each a sequence of tokens
RECURSIVE SplitSegments(_, _)
SplitSegments(str, cur) ==
    IF Len(str) = 0 THEN <<cur>>
    ELSE IF str[1] = "/" THEN <<cur>> \o SplitSegments(Tail(str), << >>)
    ELSE SplitSegments(Tail(str), Append(cur, str[1]))

DotTokens == {".github", ".env"}

IsDotSegment(seg) == Len(seg) > 0 /\ seg[1] \in DotTokens

RECURSIVE WildMatch(_, _)
WildMatch(seg, pat) ==
    IF Len(pat) = 0 THEN Len(seg) = 0
    ELSE IF pat[1] = "*"
         THEN \/ WildMatch(seg, Tail(pat))
              \/ Len(seg) > 0 /\ WildMatch(Tail(seg), pat)
    ELSE Len(seg) > 0 /\ seg[1] = pat[1] /\ WildMatch(Tail(seg), Tail(pat))

\* one path segment against one pattern segment; a leading dot is only
\* matched by a pattern that starts with it (dot: false)
SegMatch(seg, pat) ==
    /\ WildMatch(seg, pat)
    /\ IsDotSegment(seg) => (Len(pat) > 0 /\ pat[1] = seg[1])

RECURSIVE MatchOne(_, _)
MatchOne(file, pattern) ==
    IF Len(pattern) = 0 THEN Len(file) = 0
    ELSE IF pattern[1] = <<"**">>
         THEN IF Len(file) = 0 THEN FALSE
              ELSE IF Len(pattern) = 1
              THEN \A i \in 1..Len(file) : ~IsDotSegment(file[i])
              ELSE \/ MatchOne(file, Tail(pattern))
                   \/ /\ Len(file) > 0
                      /\ ~IsDotSegment(file[1])
                      /\ MatchOne(Tail(file), pattern)
    ELSE /\ Len(file) > 0
         /\ SegMatch(file[1], pattern[1])
         /\ MatchOne(Tail(file), Tail(pattern))

minimatch(filename, pattern) ==
    IF Len(pattern) = 0 THEN FALSE
    ELSE MatchOne(SplitSegments(filename, << >>), SplitSegments(pattern, << >>))

(***************************************************************************)
(* RegExp: new RegExp(source) and RegExp.prototype.test                    *)
(* A source is a sequence of tokens: "^" and "$" anchor, "(" opens a group *)
(* that only ")" closes, every other token is a literal.                   *)
(***************************************************************************)
RegExpTokens(re) == {re[i] : i \in 1..Len(re)}

\* new RegExp(source) throws a SyntaxError on an unterminated group
RegExpValid(re) == ~("(" \in RegExpTokens(re) /\ ")" \notin RegExpTokens(re))

RegExpLiteral(re) == SelectSeq(re, LAMBDA tok : tok \notin {"^", "$", "(", ")"})

RegExpTest(re, str) ==
    LET lit == RegExpLiteral(re)
        atStart == Len(re) > 0 /\ re[1] = "^"
        atEnd == Len(re) > 0 /\ re[Len(re)] = "$"
    IN  \E i \in 0..(Len(str) - Len(lit)) :
            /\ \A j \in 1..Len(lit) : str[i + j] = lit[j]
            /\ atStart => i = 0
            /\ atEnd => i + Len(lit) = Len(str)

(***************************************************************************)
(* JSON text                                                               *)
(***************************************************************************)
JStr(str) == <<"\"">> \o str \o <<"\"">>

JNum(n) == NumberToString(n)

JField(key, text) == [key |-> key, text |-> text]

Present(field) == field.text # UndefinedStr

RECURSIVE JMembers(_)
JMembers(fields) ==
    IF Len(fields) = 0 THEN << >>
    ELSE <<"\"", fields[1].key, "\"", ":">> \o fields[1].text
         \o (IF Len(fields) = 1 THEN << >> ELSE <<",">> \o JMembers(Tail(fields)))

\* JSON.stringify of an object: members whose value is undefined are left out
JObject(fields) == <<"{">> \o JMembers(SelectSeq(fields, Present)) \o <<"}">>

JArray(texts) == <<"[">> \o Join(texts, ",") \o <<"]">>

\* text of an optional string-valued member
JOptStr(v) == IF v = UndefinedStr THEN UndefinedStr ELSE JStr(v)

SerUser(u) ==
    JObject(<<JField("login", JStr(u.login)), JField("id", JNum(u.id)),
              JField("avatarUrl", JStr(u.avatarUrl)), JField("url", JStr(u.url))>>)

SerEvent(e) == JObject(<<JField("type", JStr(e.type)), JField("action", JStr(e.action))>>)

SerRepository(r) ==
    JObject(<<JField("owner", JStr(r.owner)), JField("name", JStr(r.name)),
              JField("fullName", JOptStr(r.fullName)), JField("url", JOptStr(r.url)),
              JField("defaultBranch", JStr(r.defaultBranch))>>)

SerRef(b) == JObject(<<JField("ref", JStr(b.ref)), JField("sha", JStr(b.sha))>>)

SerPullRequest(pr) ==
    JObject(<<JField("number", JNum(pr.number)), JField("title", JStr(pr.title)),
              JField("body", JStr(pr.body)), JField("author", SerUser(pr.author)),
              JField("url", JStr(pr.url)), JField("state", JStr(pr.state)),
              JField("base", SerRef(pr.base)), JField("head", SerRef(pr.head)),
              JField("createdAt", JStr(pr.createdAt)),
              JField("updatedAt", JStr(pr.updatedAt))>>)

SerChangedFile(f) ==
    JObject(<<JField("path", JStr(f.path)), JField("status", JStr(f.status)),
              JField("additions", JNum(f.additions)),
              JField("deletions", JNum(f.deletions)),
              JField("patch", JOptStr(f.patch)),
              JField("previousPath", JOptStr(f.previousPath)),
              JField("contents", JOptStr(f.contents))>>)

SerComment(c) ==
    JObject(<<JField("id", JNum(c.id)), JField("body", JStr(c.body)),
              JField("author", SerUser(c.author)),
              JField("createdAt", JStr(c.createdAt)),
              JField("updatedAt", JStr(c.updatedAt)),
              JField("type", JStr(c.type)),
              JField("path", JOptStr(c.path)),
              JField("line", IF c.line = UndefinedNum THEN UndefinedStr
                             ELSE JNum(c.line))>>)

SerChangedFiles(seq) == [i \in 1..Len(seq) |-> SerChangedFile(seq[i])]

SerComments(seq) == [i \in 1..Len(seq) |-> SerComment(seq[i])]

\* JSON.stringify(payload)
JSONStringify(payload) ==
    JObject(<<JField("event", SerEvent(payload.event)),
              JField("repository", SerRepository(payload.repository)),
              JField("pullRequest", SerPullRequest(payload.pullRequest)),
              JField("sender", SerUser(payload.sender)),
              JField("changedFiles", JArray(SerChangedFiles(payload.changedFiles))),
              JField("comments", JArray(SerComments(payload.comments))),
              JField("triggerComment",
                     IF payload.triggerComment = Undefined THEN UndefinedStr
                     ELSE SerComment(payload.triggerComment))>>)

(***************************************************************************)
(* JSON values of a response body.  A scalar is [t, v]; an object is       *)
(* [t |-> "obj", f |-> members], an absent member being JUndefined.        *)
(***************************************************************************)
JUndefined == [t |-> "undefined", v |-> ""]

JNull == [t |-> "null", v |-> "null"]

JString(v) == [t |-> "str", v |-> v]

JNumber(v) == [t |-> "num", v |-> v]

JBool(v) == [t |-> "bool", v |-> v]

ResponseKeys == <<"success", "invocationId", "invocation_id",
                  "conversationId", "conversation_id">>

NoMembers == [k \in {ResponseKeys[i] : i \in 1..Len(ResponseKeys)} |-> JUndefined]

JObj(members) == [t |-> "obj", f |-> members]

JScalarText(val) ==
    IF val.t = "str" THEN JStr(IF val.v = "" THEN << >> ELSE <<val.v>>)
    ELSE <<val.v>>

\* the text of a JSON value (members in insertion order, absent ones left out)
JsonText(val) ==
    IF val.t = "obj"
    THEN JObject([i \in 1..Len(ResponseKeys) |->
                    JField(ResponseKeys[i],
                           IF val.f[ResponseKeys[i]] = JUndefined THEN UndefinedStr
                           ELSE JScalarText(val.f[ResponseKeys[i]]))])
    ELSE JScalarText(val)

\* the JSON documents the trigger endpoint answers with in this model
JsonValues ==
    { JObj([NoMembers EXCEPT !["success"] = JBool("true"),
                             !["invocationId"] = JString("i1"),
                             !["conversationId"] = JString("c1")]),
      JObj([NoMembers EXCEPT !["success"] = JBool("true"),
                             !["invocation_id"] = JString("i2"),
                             !["conversation_id"] = JString("c2")]),
      JObj([NoMembers EXCEPT !["invocationId"] = JNumber("7"),
                             !["conversationId"] = JString(""),
                             !["conversation_id"] = JString("c3")]),
      JObj(NoMembers),
      JString("forbidden"),
      JNull }

\* JSON.parse: the value whose text this is, or a SyntaxError
JSONParse(text) ==
    IF \E val \in JsonValues : JsonText(val) = text
    THEN [threw |-> FALSE, value |-> CHOOSE val \in JsonValues : JsonText(val) = text]
    ELSE [threw |-> TRUE, message |-> <<"Unexpected token in JSON">>]

\* String(value)
StringOf(val) ==
    CASE val.t = "obj" -> <<"[object Object]">>
      [] val.t = "str" /\ val.v = "" -> << >>
      [] val.t = "undefined" -> <<"undefined">>
      [] OTHER -> <<val.v>>

\* TriggerResponseSchema.safeParse
TriggerResponseSchema(val) ==
    IF /\ val.t = "obj"
       /\ val.f["success"].t = "bool"
       /\ val.f["invocationId"].t = "str"
       /\ val.f["conversationId"].t = "str"
    THEN [success |-> TRUE,
          data |-> [success |-> val.f["success"].v = "true",
                    invocationId |-> StringOf(val.f["invocationId"]),
                    conversationId |-> StringOf(val.f["conversationId"])]]
    ELSE [success |-> FALSE, error |-> <<"Invalid response">>]

\* JavaScript truthiness of a JSON value
Truthy(val) ==
    CASE val.t = "undefined" -> FALSE
      [] val.t = "null" -> FALSE
      [] val.t = "bool" -> val.v = "true"
      [] val.t = "str" -> val.v # ""
      [] val.t = "num" -> val.v # "0"
      [] OTHER -> TRUE

\* a || b
Or(a, b) == IF Truthy(a) THEN a ELSE b

\* data.key, for data a parsed JSON value other than null
Member(data, key) == IF data.t = "obj" THEN data.f[key] ELSE JUndefined

(***************************************************************************)
(* computeSignature: HMAC-SHA256 as an ideal keyed hash, its hex digest    *)
(* written as a term over the key and the message                          *)
(***************************************************************************)
HmacSha256Hex(secret, message) == <<"hmac(">> \o secret \o <<",">> \o message \o <<")">>

computeSignature(payload, secret) == <<"sha256=">> \o HmacSha256Hex(secret, payload)

(***************************************************************************)
(* The payload schemas (zod): a member that is undefined fails z.string(); *)
(* members the schema does not name are ignored                            *)
(***************************************************************************)
IsString(v) == v # UndefinedStr

GitHubUserSchema(u) == IsString(u.login)

RepositorySchema(r) ==
    /\ IsString(r.owner)
    /\ IsString(r.name)
    /\ IsString(r.fullName)
    /\ IsString(r.url) /\ URLValid(r.url)
    /\ IsString(r.defaultBranch)

PullRequestSchema(pr) ==
    /\ pr.number \in Int
    /\ IsString(pr.title)
    /\ IsString(pr.body)
    /\ GitHubUserSchema(pr.author)
    /\ IsString(pr.url) /\ URLValid(pr.url)
    /\ IsString(pr.state)
    /\ IsString(pr.base.ref) /\ IsString(pr.base.sha)
    /\ IsString(pr.head.ref) /\ IsString(pr.head.sha)
    /\ IsString(pr.createdAt)
    /\ IsString(pr.updatedAt)

ChangedFileSchema(f) ==
    /\ IsString(f.path)
    /\ f.status \in {"added", "modified", "removed", "renamed", "copied", "changed",
                      "unchanged"}
    /\ f.additions \in Int
    /\ f.deletions \in Int

CommentSchema(c) ==
    /\ c.id \in Int
    /\ IsString(c.body)
    /\ GitHubUserSchema(c.author)
    /\ IsString(c.createdAt)
    /\ c.type \in {<<"issue">>, <<"review">>, <<"review_summary">>}

GitHubEventSchema(e) == IsString(e.type) /\ IsString(e.action)

TriggerPayloadSchema(p) ==
    /\ GitHubEventSchema(p.event)
    /\ RepositorySchema(p.repository)
    /\ PullRequestSchema(p.pullRequest)
    /\ GitHubUserSchema(p.sender)
    /\ \A i \in 1..Len(p.changedFiles) : ChangedFileSchema(p.changedFiles[i])
    /\ \A i \in 1..Len(p.comments) : CommentSchema(p.comments[i])
    /\ p.triggerComment # Undefined => CommentSchema(p.triggerComment)

(***************************************************************************)
(* Results of calls that may throw                                         *)
(***************************************************************************)
Returned(v) == [threw |-> FALSE, value |-> v]

Thrown(msg) == [threw |-> TRUE, message |-> msg]

(***************************************************************************)
(* parseEventContext                                                       *)
(* null numbers are 0: the code only tests them with ! and &&              *)
(***************************************************************************)
ContextRepo == [owner |-> <<"ctx-owner">>, repo |-> <<"ctx-repo">>]

StrOr(a, b) == IF a # << >> THEN a ELSE b

\* IssueIsPullRequest with the back-reference test left out
IssueIsPullRequestAlways(issue) == TRUE

\* issue?.pull_request: the issue of an issue_comment event refers back to a
\* pull request
IssueIsPullRequest(issue) == issue # Undefined /\ issue.pull_request

\* ResolvePullRequestNumber that reads pull_request.number whatever the event kind
ResolvePullRequestNumberAnyKind(eventName, eventPayload) ==
    IF eventName = <<"issue_comment">>
    THEN (IF IssueIsPullRequest(eventPayload.issue) THEN eventPayload.issue.number ELSE 0)
    ELSE IF eventPayload.pull_request = Undefined THEN 0
    ELSE eventPayload.pull_request.number

\* pullRequestNumber as the event kinds determine it, 0 for null
ResolvePullRequestNumber(eventName, eventPayload) ==
    LET prNumberOf(pr) == IF pr = Undefined THEN 0 ELSE pr.number
    IN  IF eventName \in {<<"pull_request">>, <<"pull_request_review">>}
        THEN prNumberOf(eventPayload.pull_request)
        ELSE IF eventName = <<"issue_comment">>
        THEN (IF IssueIsPullRequest(eventPayload.issue) THEN eventPayload.issue.number ELSE 0)
        ELSE IF eventName = <<"pull_request_review_comment">>
        THEN prNumberOf(eventPayload.pull_request)
        ELSE 0

\* HasPullRequestNumber with the test left out
HasPullRequestNumberAlways(pullRequestNumber) == TRUE

\* !pullRequestNumber is false
HasPullRequestNumber(pullRequestNumber) == pullRequestNumber # 0

parseEventContext(e) ==
    LET eventName == e.GITHUB_EVENT_NAME
        eventPayload == e.eventPayload
        action == eventPayload.action
        repo == eventPayload.repository
        senderData == eventPayload.sender
        repository ==
            [owner |-> StrOr(repo.owner_login, StrOr(repo.owner_name, ContextRepo.owner)),
             name |-> StrOr(repo.name, ContextRepo.repo),
             fullName |-> repo.full_name,
             url |-> repo.html_url,
             defaultBranch |-> StrOr(repo.default_branch, <<"main">>)]
        sender ==
            [login |-> senderData.login, id |-> senderData.id,
             avatarUrl |-> senderData.avatar_url, url |-> senderData.html_url]
        commentIdOf(c) == IF c = Undefined THEN 0 ELSE c.id
        issueIsPR == IssueIsPullRequest(eventPayload.issue)
        pullRequestNumber == ResolvePullRequestNumber(eventName, eventPayload)
        triggerCommentId ==
            IF eventName = <<"issue_comment">> /\ issueIsPR
            THEN commentIdOf(eventPayload.comment)
            ELSE IF eventName = <<"pull_request_review_comment">>
            THEN commentIdOf(eventPayload.comment)
            ELSE 0
    IN  IF eventName = << >>
        THEN Thrown(<<"GITHUB_EVENT_NAME environment variable is not set">>)
        ELSE IF e.GITHUB_EVENT_PATH = << >>
        THEN Thrown(<<"GITHUB_EVENT_PATH environment variable is not set">>)
        ELSE IF e.eventFile = "missing"
        THEN Thrown(<<"ENOENT: no such file or directory">>)
        ELSE IF e.eventFile = "malformed"
        THEN Thrown(<<"Unexpected token in JSON">>)
        ELSE IF repo = Undefined
        THEN Thrown(<<"Event payload does not contain repository information">>)
        ELSE IF senderData = Undefined
        THEN Thrown(<<"Event payload does not contain sender information">>)
        ELSE IF eventName = <<"issue_comment">> /\ ~issueIsPR
        THEN Thrown(<<"issue_comment event is not associated with a pull request.",
                      " This action only supports PR comments.">>)
        ELSE IF ~HasPullRequestNumber(pullRequestNumber)
        THEN Thrown(<<"Could not determine pull request number from event \"">>
                    \o eventName
                    \o <<"\". This action only supports pull_request, issue_comment",
                         " (on PRs), and pull_request_review events.">>)
        ELSE Returned([event |-> [type |-> eventName, action |-> action],
                       repository |-> repository,
                       sender |-> sender,
                       pullRequestNumber |-> pullRequestNumber,
                       triggerCommentId |-> triggerCommentId])

(***************************************************************************)
(* getProjectIdFromTriggerUrl                                              *)
(***************************************************************************)
\* getProjectIdFromTriggerUrl without the throw: the project id is empty when
\* nothing follows 'projects'
getProjectIdUnchecked(triggerUrl) ==
    IF ~URLValid(triggerUrl) THEN Thrown(<<"Invalid URL">>)
    ELSE LET parts == SplitSlash(URLPathname(triggerUrl))
             projectIndex == IndexOf(parts, "projects")
         IN  Returned(IF projectIndex = 0 \/ projectIndex + 1 > Len(parts)
                         \/ parts[projectIndex + 1] = ""
                      THEN << >>
                      ELSE <<parts[projectIndex + 1]>>)

getProjectIdFromTriggerUrl(triggerUrl) ==
    IF ~URLValid(triggerUrl) THEN Thrown(<<"Invalid URL">>)
    ELSE LET parts == SplitSlash(URLPathname(triggerUrl))
             projectIndex == IndexOf(parts, "projects")
         IN  IF projectIndex = 0 \/ projectIndex + 1 > Len(parts)
             THEN Thrown(<<"Invalid trigger URL format: could not extract project ID from ">>
                         \o triggerUrl)
             ELSE Returned(IF parts[projectIndex + 1] = "" THEN << >>
                           ELSE <<parts[projectIndex + 1]>>)

(***************************************************************************)
(* What the run is started with: the action inputs (core.getInput) and the *)
(* runtime environment of parseEventContext                                *)
(***************************************************************************)
UrlBase == <<"https://", "h.example", "/", "run", "/", "tenants", "/", "t1">>

UrlWithQuery == UrlBase \o <<"/", "projects", "/", "p1", "/", "triggers", "?", "key=s3cret">>

UrlNoQuery == UrlBase \o <<"/", "projects", "/", "p1">>

UrlEmptyProject == UrlBase \o <<"/", "projects", "/", "?", "key=s3cret">>

\* trigger URLs getProjectIdFromTriggerUrl rejects, and the unset input
BadTriggerUrls ==
    { UrlBase \o <<"/", "projects">>,
      UrlBase \o <<"?", "key=s3cret">>,
      <<"not-a-url">>,
      << >> }

CustomApiBase == <<"https://", "api.example", "/">>

Override == <<"ghp_override">>

\* trigger-url, signing-secret, github-token and api-base-url as they are set together
Profile(url, secret, token, apiBase) ==
    [triggerUrl |-> url, signingSecret |-> secret, githubToken |-> token,
     apiBaseUrl |-> apiBase]

Profiles ==
    { Profile(UrlWithQuery, <<"s">>, Override, << >>),
      Profile(UrlWithQuery, << >>, << >>, << >>),
      Profile(UrlNoQuery, <<"s">>, << >>, CustomApiBase),
      Profile(UrlNoQuery, << >>, Override, << >>),
      Profile(UrlEmptyProject, <<"s">>, << >>, << >>) }
    \cup { Profile(url, << >>, Override, << >>) : url \in BadTriggerUrls }

PathFilters == { << >>, <<"docs", "/", "**">>, <<"*", ".md">> }

TitleRegexes == { << >>, <<"^", "docs">>, <<"(", "docs">> }

RepoData ==
    [owner_login |-> <<"o">>, owner_name |-> << >>, name |-> <<"r">>,
     full_name |-> <<"o", "/", "r">>, html_url |-> <<"https://", "gh", "/", "o", "/", "r">>,
     default_branch |-> << >>]

SenderData ==
    [login |-> <<"alice">>, id |-> 1, avatar_url |-> <<"https://", "av", "/", "1">>,
     html_url |-> <<"https://", "gh", "/", "alice">>]

PRNumber == 7

BasePayload ==
    [action |-> <<"opened">>, repository |-> RepoData, sender |-> SenderData,
     pull_request |-> [number |-> PRNumber], issue |-> Undefined, comment |-> Undefined]

CommentPayload(issue, pr, commentId) ==
    [BasePayload EXCEPT !.action = <<"created">>, !.issue = issue, !.pull_request = pr,
                        !.comment = [id |-> commentId]]

BaseEnv(name, body) ==
    [GITHUB_EVENT_NAME |-> name, GITHUB_EVENT_PATH |-> <<"/", "event.json">>,
     eventFile |-> "ok", eventPayload |-> body]

\* a pull_request event whose repository object carries no full_name
PartialRepositoryEnv ==
    BaseEnv(<<"pull_request">>,
            [BasePayload EXCEPT !.repository = [RepoData EXCEPT !.full_name = UndefinedStr]])

\* events the resolver accepts
GoodEnvs ==
    { BaseEnv(<<"pull_request">>, BasePayload),
      BaseEnv(<<"pull_request_review">>, [BasePayload EXCEPT !.action = <<"submitted">>]),
      BaseEnv(<<"issue_comment">>,
              CommentPayload([number |-> PRNumber, pull_request |-> TRUE], Undefined, 101)),
      BaseEnv(<<"issue_comment">>,
              CommentPayload([number |-> PRNumber, pull_request |-> TRUE], Undefined, 102)),
      BaseEnv(<<"pull_request_review_comment">>,
              CommentPayload(Undefined, [number |-> PRNumber], 201)),
      PartialRepositoryEnv }

\* events and environments the resolver rejects
BadEnvs ==
    { BaseEnv(<<"issue_comment">>,
              CommentPayload([number |-> PRNumber, pull_request |-> FALSE], Undefined, 101)),
      BaseEnv(<<"push">>, BasePayload),
      BaseEnv(<<"pull_request_target">>, BasePayload),
      BaseEnv(<<"pull_request_review_comment">>,
              CommentPayload(Undefined, Undefined, 201)),
      BaseEnv(<<"pull_request">>, [BasePayload EXCEPT !.pull_request = Undefined]),
      BaseEnv(<<"pull_request">>, [BasePayload EXCEPT !.repository = Undefined]),
      BaseEnv(<<"pull_request">>, [BasePayload EXCEPT !.sender = Undefined]),
      BaseEnv(<< >>, BasePayload),
      [BaseEnv(<<"pull_request">>, BasePayload) EXCEPT !.GITHUB_EVENT_PATH = << >>],
      [BaseEnv(<<"pull_request">>, BasePayload) EXCEPT !.eventFile = "missing"],
      [BaseEnv(<<"pull_request">>, BasePayload) EXCEPT !.eventFile = "malformed"] }

Envs == GoodEnvs \cup BadEnvs

Inputs ==
    { [triggerUrl |-> p.triggerUrl, signingSecret |-> p.signingSecret,
       githubToken |-> p.githubToken, apiBaseUrl |-> p.apiBaseUrl,
       pathFilter |-> pathFilter, prTitleRegex |-> prTitleRegex] :
      p \in Profiles, pathFilter \in PathFilters, prTitleRegex \in TitleRegexes }

\* the profile the filters and the events are varied with
MainProfile == Profile(UrlWithQuery, <<"s">>, Override, << >>)

ProfileOf(i) == Profile(i.triggerUrl, i.signingSecret, i.githubToken, i.apiBaseUrl)

PullRequestEnv == BaseEnv(<<"pull_request">>, BasePayload)

\* an issue_comment event whose comment the agent's own identity wrote
BotCommentEnv ==
    BaseEnv(<<"issue_comment">>,
            CommentPayload([number |-> PRNumber, pull_request |-> TRUE], Undefined, 102))

Unfiltered == { i \in Inputs : i.pathFilter = << >> /\ i.prTitleRegex = << >> }

\* the runs explored: under the main profile every filter combination on a
\* pull_request event and on a comment of the agent's identity, and every
\* event with the filters unset; every other profile on a pull_request event
\* with the filters unset
Runs ==
    { [inputs |-> i, env |-> e] :
        i \in { j \in Inputs : ProfileOf(j) = MainProfile },
        e \in {PullRequestEnv, BotCommentEnv} }
    \cup { [inputs |-> i, env |-> e] :
        i \in { j \in Unfiltered : ProfileOf(j) = MainProfile }, e \in Envs }
    \cup { [inputs |-> i, env |-> PullRequestEnv] : i \in Unfiltered }

(***************************************************************************)
(* State                                                                   *)
(***************************************************************************)
VARIABLES
    inputs,         \* the action inputs
    env,            \* GITHUB_EVENT_NAME, GITHUB_EVENT_PATH and the event file
    pc,             \* where run() is
    eventContext,   \* result of parseEventContext
    projectId,      \* result of getProjectIdFromTriggerUrl
    tokenRequest,   \* the token-exchange POST, once issued
    githubToken,    \* result of getGitHubToken
    existingBotPR,  \* result of checkBotPRExists
    options,        \* the options fetchPRContext was called with
    pullRequest,    \* result of fetchPullRequest
    filesTask,      \* fetchChangedFiles: its position and the files so far
    commentsTask,   \* fetchComments: its position and the comments so far
    prContext,      \* result of fetchPRContext
    payload,        \* the TriggerPayload
    stringifyCalls, \* how many times sendTrigger has serialized the payload
    posts,          \* the requests POSTed to the trigger URL
    response,       \* the response of the trigger URL
    outputs,        \* core.setOutput
    failed,         \* core.setFailed message
    logs,           \* the set of core.info / core.warning lines written
    calls           \* remote calls issued so far, per kind

vars == <<inputs, env, pc, eventContext, projectId, tokenRequest, githubToken,
          existingBotPR, options, pullRequest, filesTask, commentsTask, prContext,
          payload, stringifyCalls, posts, response, outputs, failed, logs, calls>>

OutputNames == {"invocation-id", "conversation-id", "skipped", "skip-reason",
                "existing-bot-pr-number", "existing-bot-pr-url"}

CallKinds == {"getIDToken", "tokenExchange", "searchBotPR", "pulls.get", "listFiles",
              "listComments", "listReviewComments", "getContent", "trigger"}

Null == [t |-> "null"]

IdleFiles == [state |-> "idle", pages |-> 0, served |-> << >>, files |-> << >>]

IdleComments ==
    [state |-> "idle", pages |-> 0, servedIssue |-> << >>, servedReview |-> << >>,
     comments |-> << >>, triggerComment |-> Undefined]

Init ==
    /\ \E r \in Runs : inputs = r.inputs /\ env = r.env
    /\ pc = "inputs"
    /\ eventContext = Undefined
    /\ projectId = UndefinedStr
    /\ tokenRequest = Undefined
    /\ githubToken = UndefinedStr
    /\ existingBotPR = Undefined
    /\ options = Undefined
    /\ pullRequest = Undefined
    /\ filesTask = IdleFiles
    /\ commentsTask = IdleComments
    /\ prContext = Undefined
    /\ payload = Undefined
    /\ stringifyCalls = 0
    /\ posts = << >>
    /\ response = Undefined
    /\ outputs = [n \in OutputNames |-> UndefinedStr]
    /\ failed = UndefinedStr
    /\ logs = {}
    /\ calls = [k \in CallKinds |-> 0]

(***************************************************************************)
(* run(): the steps up to fetchPRContext                                   *)
(***************************************************************************)
\* Fail that signals the failure and lets the run go on where it was
FailAndGoOn(msg) ==
    /\ failed' = msg
    /\ pc' = pc

\* the catch block of run: core.setFailed(error.message)
Fail(msg) ==
    /\ failed' = msg
    /\ pc' = "done"

\* core.info / core.warning: the lines are added to the log
Info(lines) == logs' = logs \cup {lines[i] : i \in 1..Len(lines)}

Called(kind) == calls' = [calls EXCEPT ![kind] = @ + 1]

\* core.getInput('trigger-url', {required: true}) and the other inputs
GetInputs ==
    /\ pc = "inputs"
    /\ IF inputs.triggerUrl = << >>
       THEN /\ Fail(<<"Input required and not supplied: trigger-url">>)
            /\ UNCHANGED logs
       ELSE /\ pc' = "parse"
            /\ Info(<<<<"Starting Inkeep Agents Action">>>>)
            /\ UNCHANGED failed
    /\ UNCHANGED <<inputs, env, eventContext, projectId, tokenRequest, githubToken,
                   existingBotPR, options, pullRequest, filesTask, commentsTask,
                   prContext, payload, stringifyCalls, posts, response, outputs, calls>>

\* const eventContext = await parseEventContext()
ParseEvent ==
    /\ pc = "parse"
    /\ LET r == parseEventContext(env)
       IN  IF r.threw
           THEN /\ Fail(r.message)
                /\ Info(IF env.GITHUB_EVENT_NAME = << >> \/ env.GITHUB_EVENT_PATH = << >>
                        THEN << >>
                        ELSE IF env.eventFile # "ok"
                        THEN <<<<"Event type: ">> \o env.GITHUB_EVENT_NAME>>
                        ELSE <<<<"Event type: ">> \o env.GITHUB_EVENT_NAME,
                               <<"Event action: ">> \o StrOr(env.eventPayload.action, <<"(none)">>)>>)
                /\ UNCHANGED eventContext
           ELSE /\ eventContext' = r.value
                /\ pc' = "projectId"
                /\ Info(<<<<"Event type: ">> \o env.GITHUB_EVENT_NAME,
                          <<"Event action: ">> \o StrOr(env.eventPayload.action, <<"(none)">>),
                          <<"Processing ">> \o r.value.event.type \o <<" event for PR #">>
                              \o NumberToString(r.value.pullRequestNumber)>>)
                /\ UNCHANGED failed
    /\ UNCHANGED <<inputs, env, projectId, tokenRequest, githubToken, existingBotPR,
                   options, pullRequest, filesTask, commentsTask, prContext, payload,
                   stringifyCalls, posts, response, outputs, calls>>

\* const projectId = getProjectIdFromTriggerUrl(triggerUrl)
GetProjectId ==
    /\ pc = "projectId"
    /\ LET r == getProjectIdFromTriggerUrl(inputs.triggerUrl)
       IN  IF r.threw
           THEN /\ Fail(r.message)
                /\ UNCHANGED projectId
           ELSE /\ projectId' = r.value
                /\ pc' = "token"
                /\ UNCHANGED failed
    /\ UNCHANGED <<inputs, env, eventContext, tokenRequest, githubToken, existingBotPR,
                   options, pullRequest, filesTask, commentsTask, prContext, payload,
                   stringifyCalls, posts, response, outputs, logs, calls>>

\* GetTokenOverride that requests the identity assertion before it returns the
\* override token
GetTokenOverrideAsserting ==
    /\ pc = "token"
    /\ inputs.githubToken # << >>
    /\ githubToken' = inputs.githubToken
    /\ pc' = "botpr"
    /\ Info(<<<<"Using provided github-token override">>>>)
    /\ Called("getIDToken")
    /\ UNCHANGED <<inputs, env, eventContext, projectId, tokenRequest, existingBotPR,
                   options, pullRequest, filesTask, commentsTask, prContext, payload,
                   stringifyCalls, posts, response, outputs, failed>>

\* getGitHubToken with an override token: returned as is
GetTokenOverride ==
    /\ pc = "token"
    /\ inputs.githubToken # << >>
    /\ githubToken' = inputs.githubToken
    /\ pc' = "botpr"
    /\ Info(<<<<"Using provided github-token override">>>>)
    /\ UNCHANGED <<inputs, env, eventContext, projectId, tokenRequest, existingBotPR,
                   options, pullRequest, filesTask, commentsTask, prContext, payload,
                   stringifyCalls, posts, response, outputs, failed, calls>>

IdTokens == { << >>, <<"oidc.jwt">> }

\* baseUrl.replace(/\/$/, '')
StripTrailingSlash(str) ==
    IF Len(str) > 0 /\ str[Len(str)] = "/" THEN SubSeq(str, 1, Len(str) - 1) ELSE str

\* getGitHubToken without override: core.getIDToken, then the exchange POST is issued
RequestIDToken ==
    /\ pc = "token"
    /\ inputs.githubToken = << >>
    /\ \E threw \in BOOLEAN, oidcToken \in IdTokens :
        LET start == <<<<"Performing OIDC token exchange for GitHub App authentication">>>>
            baseUrl == StrOr(inputs.apiBaseUrl, DEFAULT_API_BASE_URL)
        IN  IF threw
            THEN /\ Fail(<<"Unable to get ACTIONS_ID_TOKEN_REQUEST_URL env variable">>)
                 /\ Info(start)
                 /\ Called("getIDToken")
                 /\ UNCHANGED tokenRequest
            ELSE IF oidcToken = << >>
            THEN /\ Fail(<<"Failed to get OIDC token. Ensure the workflow has ",
                           "\"id-token: write\" permission.">>)
                 /\ Info(start)
                 /\ Called("getIDToken")
                 /\ UNCHANGED tokenRequest
            ELSE /\ tokenRequest' =
                        [url |-> StripTrailingSlash(baseUrl) \o TOKEN_EXCHANGE_PATH,
                         body |-> [oidc_token |-> oidcToken, project_id |-> projectId]]
                 /\ pc' = "exchange"
                 /\ calls' = [calls EXCEPT !["getIDToken"] = @ + 1,
                                           !["tokenExchange"] = @ + 1]
                 /\ Info(start \o (IF inputs.apiBaseUrl # << >>
                                   THEN <<<<"Using custom API base URL: ">> \o baseUrl>>
                                   ELSE << >>))
                 /\ UNCHANGED failed
    /\ UNCHANGED <<inputs, env, eventContext, projectId, githubToken, existingBotPR,
                   options, pullRequest, filesTask, commentsTask, prContext, payload,
                   stringifyCalls, posts, response, outputs>>

ExchangeStatuses == {200, 401, 403, 500}

ErrorBody == <<"denied">>

\* the response of the token-exchange POST
TokenExchangeResponse ==
    /\ pc = "exchange"
    /\ \E neterr \in BOOLEAN, status \in ExchangeStatuses :
        IF neterr
        THEN /\ Fail(<<"fetch failed">>)
             /\ UNCHANGED <<githubToken, logs>>
        ELSE IF status \notin 200..299
        THEN /\ Fail(IF status = 401
                     THEN <<"OIDC token validation failed: ">> \o ErrorBody
                     ELSE IF status = 403
                     THEN <<"GitHub App not installed on this repository. ",
                            "Please install the Inkeep GitHub App. Details: ">> \o ErrorBody
                     ELSE <<"Token exchange failed (">> \o NumberToString(status)
                          \o <<"): ">> \o ErrorBody)
             /\ UNCHANGED <<githubToken, logs>>
        ELSE /\ githubToken' = <<"ghs_installation">>
             /\ pc' = "botpr"
             /\ Info(<<<<"Authenticated as GitHub App for repository: ">>
                       \o eventContext.repository.fullName>>)
             /\ UNCHANGED failed
    /\ UNCHANGED <<inputs, env, eventContext, projectId, tokenRequest, existingBotPR,
                   options, pullRequest, filesTask, commentsTask, prContext, payload,
                   stringifyCalls, posts, response, outputs, calls>>

(***************************************************************************)
(* The upstream: what the GitHub API serves                                *)
(***************************************************************************)
FileNames ==
    << <<"src", "/", "a", ".ts">>, <<"README", ".md">>, <<"docs", "/", "g", ".md">>,
       <<"docs", "/", "sub", "/", "x", ".md">>, <<".github", "/", "w", ".yml">> >>

FileStatuses == <<"modified", "removed", "renamed", "added", "added">>

\* the i-th entry of the pull request's changed-files listing
RawFile(i) ==
    LET k == ((i - 1) % Len(FileNames)) + 1
    IN  [filename |-> FileNames[k], status |-> FileStatuses[k],
         additions |-> k, deletions |-> k - 1,
         patch |-> IF k % 2 = 1 THEN <<"@@ -1 +1 @@">> ELSE UndefinedStr,
         previous_filename |-> IF FileStatuses[k] = "renamed"
                               THEN <<"docs", "/", "old", ".md">> ELSE UndefinedStr]

UserData(login, id) ==
    [login |-> login, id |-> id, avatar_url |-> <<"https://", "av", "/">> \o login,
     html_url |-> <<"https://", "gh", "/">> \o login]

\* the i-th issue comment of the pull request
RawIssueComment(i) ==
    [id |-> 100 + i,
     body |-> IF i % 2 = 1 THEN <<"please update the docs">> ELSE << >>,
     user |-> IF i % 2 = 1 THEN UserData(<<"alice">>, 1) ELSE UserData(BotLogin, 9),
     created_at |-> <<"2024-01-01">>, updated_at |-> <<"2024-01-02">>]

\* the i-th review comment of the pull request
RawReviewComment(i) ==
    [id |-> 200 + i, body |-> <<"nit">>,
     user |-> IF i % 2 = 1 THEN UserData(<<"bob">>, 2) ELSE UserData(BotLogin, 9),
     created_at |-> <<"2024-01-03">>, updated_at |-> <<"2024-01-03">>,
     path |-> FileNames[1],
     line |-> IF i % 2 = 1 THEN 10 ELSE 0, original_line |-> 5]

Titles == { <<"docs", ": update guide">>, <<"feat", ": add docs">> }

RawPullRequest(number, title) ==
    [number |-> number, title |-> title, body |-> <<"body">>,
     user |-> UserData(<<"alice">>, 1),
     html_url |-> <<"https://", "gh", "/", "o", "/", "r", "/", "pull">>,
     state |-> <<"open">>,
     base |-> [ref |-> <<"main">>, sha |-> <<"b4se">>],
     head |-> [ref |-> <<"feature">>, sha |-> <<"h3ad">>],
     created_at |-> <<"2024-01-01">>, updated_at |-> <<"2024-01-02">>]

\* pull requests the companion search may return
SearchResults ==
    { << >>,
      <<[number |-> 12, url |-> <<"https://", "gh", "/", "o", "/", "r", "/", "pull", "/", "12">>,
         author |-> BotLogin, references |-> PRNumber]>>,
      <<[number |-> 11, url |-> <<"https://", "gh", "/", "o", "/", "r", "/", "pull", "/", "11">>,
         author |-> <<"alice">>, references |-> PRNumber],
        [number |-> 10, url |-> <<"https://", "gh", "/", "o", "/", "r", "/", "pull", "/", "10">>,
         author |-> BotLogin, references |-> PRNumber + 1]>> }

(***************************************************************************)
(* github/pr.ts                                                            *)
(***************************************************************************)
mapUser(user) ==
    [login |-> user.login, id |-> user.id, avatarUrl |-> user.avatar_url,
     url |-> user.html_url]

\* the PullRequest built by fetchPullRequest from the pulls.get response
fetchPullRequest(pr) ==
    [number |-> pr.number, title |-> pr.title, body |-> pr.body,
     author |-> mapUser(pr.user), url |-> pr.html_url, state |-> pr.state,
     base |-> [ref |-> pr.base.ref, sha |-> pr.base.sha],
     head |-> [ref |-> pr.head.ref, sha |-> pr.head.sha],
     createdAt |-> pr.created_at, updatedAt |-> pr.updated_at]

\* the ChangedFile built by fetchChangedFiles for one listed file
MapChangedFile(file, includePatches) ==
    [path |-> file.filename, status |-> file.status, additions |-> file.additions,
     deletions |-> file.deletions,
     patch |-> IF includePatches THEN file.patch ELSE UndefinedStr,
     previousPath |-> file.previous_filename, contents |-> UndefinedStr]

\* fetchChangedFiles without the path filter: every listed file is kept
PassesPathFilterNone(file, pathFilter) == TRUE

\* the path filter of fetchChangedFiles: a file is dropped when a filter is
\* given and the file name does not match it
PassesPathFilter(file, pathFilter) ==
    ~(pathFilter # << >> /\ ~minimatch(file.filename, pathFilter))

\* FilesOfPage that leaves out the last file of every page
FilesOfPageDroppingLast(page, pathFilter, includePatches) ==
    LET kept == SelectSeq(SubSeq(page, 1, Len(page) - 1),
                          LAMBDA file : PassesPathFilter(file, pathFilter))
    IN  [i \in 1..Len(kept) |-> MapChangedFile(kept[i], includePatches)]

\* the files one page adds to the accumulated list
FilesOfPage(page, pathFilter, includePatches) ==
    LET kept == SelectSeq(page, LAMBDA file : PassesPathFilter(file, pathFilter))
    IN  [i \in 1..Len(kept) |-> MapChangedFile(kept[i], includePatches)]

MapIssueComment(comment) ==
    [id |-> comment.id, body |-> StrOr(comment.body, << >>),
     author |-> mapUser(comment.user), createdAt |-> comment.created_at,
     updatedAt |-> comment.updated_at, type |-> <<"issue">>,
     path |-> UndefinedStr, line |-> UndefinedNum]

MapReviewComment(comment) ==
    [id |-> comment.id, body |-> comment.body,
     author |-> mapUser(comment.user), createdAt |-> comment.created_at,
     updatedAt |-> comment.updated_at, type |-> <<"review">>,
     path |-> comment.path,
     line |-> IF comment.line # 0 THEN comment.line ELSE comment.original_line]

\* IsTriggerComment without the comparison of the ids
IsTriggerCommentAny(comment, triggerCommentId) == TRUE

\* if (triggerCommentId && comment.id === triggerCommentId)
IsTriggerComment(comment, triggerCommentId) ==
    triggerCommentId # 0 /\ comment.id = triggerCommentId

\* triggerComment after the comments of one page have been appended: the last
\* one whose id is triggerCommentId, else what it was
RECURSIVE TriggerAfter(_, _, _)
TriggerAfter(mapped, triggerCommentId, current) ==
    IF Len(mapped) = 0 THEN current
    ELSE TriggerAfter(Tail(mapped), triggerCommentId,
                      IF IsTriggerComment(mapped[1], triggerCommentId)
                      THEN mapped[1] ELSE current)

\* checkBotPRExists on the search results: the first pull request authored by
\* the bot that references prNumber, or null
checkBotPRExists(results, prNumber) ==
    LET hits == SelectSeq(results, LAMBDA r : r.author = BotLogin /\ r.references = prNumber)
    IN  IF Len(hits) = 0 THEN Null
        ELSE [number |-> hits[1].number, url |-> hits[1].url]

(***************************************************************************)
(* run(): loop guard and fetchPRContext                                    *)
(***************************************************************************)
ApiError == <<"HttpError: Server Error">>

\* CheckBotPR without the return after the skip outputs
CheckBotPRNoReturn ==
    /\ pc = "botpr"
    /\ Called("searchBotPR")
    /\ \E results \in SearchResults :
        LET found == checkBotPRExists(results, eventContext.pullRequestNumber)
        IN  /\ existingBotPR' = found
            /\ pc' = "pulls.get"
            /\ IF found # Null
               THEN outputs' = [outputs EXCEPT
                        !["skipped"] = <<"true">>,
                        !["skip-reason"] = <<"bot-pr-exists">>,
                        !["existing-bot-pr-number"] = NumberToString(found.number),
                        !["existing-bot-pr-url"] = found.url]
               ELSE UNCHANGED outputs
    /\ UNCHANGED <<inputs, env, eventContext, projectId, tokenRequest, githubToken,
                   options, pullRequest, filesTask, commentsTask, prContext, payload,
                   stringifyCalls, posts, response, failed, logs>>

\* checkBotPRExists and the skip on an existing bot pull request
CheckBotPR ==
    /\ pc = "botpr"
    /\ Called("searchBotPR")
    /\ \E ok \in BOOLEAN, results \in SearchResults :
        LET found == checkBotPRExists(results, eventContext.pullRequestNumber)
        IN  IF ~ok
            THEN /\ Fail(ApiError)
                 /\ UNCHANGED <<existingBotPR, outputs, logs>>
            ELSE /\ existingBotPR' = found
                 /\ UNCHANGED failed
                 /\ IF found # Null
                    THEN /\ Info(<<<<"Bot already created PR #">> \o NumberToString(found.number)
                                   \o <<" referencing this PR. Skipping trigger.">>>>)
                         /\ outputs' = [outputs EXCEPT
                                !["skipped"] = <<"true">>,
                                !["skip-reason"] = <<"bot-pr-exists">>,
                                !["existing-bot-pr-number"] = NumberToString(found.number),
                                !["existing-bot-pr-url"] = found.url]
                         /\ pc' = "done"
                    ELSE /\ pc' = "pulls.get"
                         /\ UNCHANGED <<outputs, logs>>
    /\ UNCHANGED <<inputs, env, eventContext, projectId, tokenRequest, githubToken,
                   options, pullRequest, filesTask, commentsTask, prContext, payload,
                   stringifyCalls, posts, response>>

\* fetchPRContext: fetchPullRequest, then both sub-fetches are started and each
\* requests its first page
FetchPullRequest ==
    /\ pc = "pulls.get"
    /\ options' = [pathFilter |-> inputs.pathFilter, includeContents |-> FALSE,
                   triggerCommentId |-> eventContext.triggerCommentId]
    /\ \E ok \in BOOLEAN, title \in Titles :
        LET n == NumberToString(eventContext.pullRequestNumber)
            details == <<"Fetching PR #">> \o n \o <<" details">>
        IN  IF ~ok
            THEN /\ Fail(ApiError)
                 /\ Info(<<details>>)
                 /\ Called("pulls.get")
                 /\ UNCHANGED <<pullRequest, filesTask, commentsTask>>
            ELSE /\ pullRequest' =
                        fetchPullRequest(RawPullRequest(eventContext.pullRequestNumber, title))
                 /\ filesTask' = [IdleFiles EXCEPT !.state = "paging"]
                 /\ commentsTask' = [IdleComments EXCEPT !.state = "issue"]
                 /\ pc' = "fetching"
                 /\ Info(<<details, <<"Fetching PR #">> \o n \o <<" changed files">>,
                           <<"Fetching PR #">> \o n \o <<" comments">>>>)
                 /\ calls' = [calls EXCEPT !["pulls.get"] = @ + 1, !["listFiles"] = @ + 1,
                                           !["listComments"] = @ + 1]
                 /\ UNCHANGED failed
    /\ UNCHANGED <<inputs, env, eventContext, projectId, tokenRequest, githubToken,
                   existingBotPR, prContext, payload, stringifyCalls, posts, response, outputs>>

\* the PRContext fetchPRContext returns once both sub-fetches are done
PRContextOf(files, comments) ==
    [pullRequest |-> pullRequest, changedFiles |-> files.files,
     comments |-> comments.comments, triggerComment |-> comments.triggerComment]

\* SettleFetch that waits for both sub-fetches to settle and takes what a
\* failed one had gathered
SettleFetchAllSettled(files, comments, thisFailed) ==
    IF pc # "fetching"
    THEN UNCHANGED <<pc, failed, prContext>>
    ELSE IF files.state \in {"done", "failed"} /\ comments.state \in {"done", "failed"}
    THEN /\ prContext' = PRContextOf(files, comments)
         /\ pc' = "filterPath"
         /\ UNCHANGED failed
    ELSE UNCHANGED <<pc, failed, prContext>>

\* SettleFetch that returns the PRContext as soon as the changed files are
\* there, whatever the state of the comments
SettleFetchFilesOnly(files, comments, thisFailed) ==
    IF pc # "fetching"
    THEN UNCHANGED <<pc, failed, prContext>>
    ELSE IF thisFailed
    THEN /\ Fail(ApiError)
         /\ UNCHANGED prContext
    ELSE IF files.state = "done"
    THEN /\ prContext' = PRContextOf(files, comments)
         /\ pc' = "filterPath"
         /\ UNCHANGED failed
    ELSE UNCHANGED <<pc, failed, prContext>>

\* Promise.all of the two sub-fetches after one of them moved to its next state:
\* the first rejection fails the run, the second completion returns the PRContext
SettleFetch(files, comments, thisFailed) ==
    IF pc # "fetching"
    THEN UNCHANGED <<pc, failed, prContext>>
    ELSE IF thisFailed
    THEN /\ Fail(ApiError)
         /\ UNCHANGED prContext
    ELSE IF files.state = "done" /\ comments.state = "done"
    THEN /\ prContext' = PRContextOf(files, comments)
         /\ pc' = "filterPath"
         /\ UNCHANGED failed
    ELSE UNCHANGED <<pc, failed, prContext>>

\* fetchChangedFiles: the response to a pulls.listFiles page request
ReceiveFilesPage ==
    /\ filesTask.state = "paging"
    /\ \E ok \in BOOLEAN, len \in 0..MaxPageLen, more \in BOOLEAN :
        LET first == Len(filesTask.served)
            page == [i \in 1..len |-> RawFile(first + i)]
            files == filesTask.files \o FilesOfPage(page, options.pathFilter, FALSE)
            next == [state |-> IF ~ok THEN "failed" ELSE IF more THEN "paging" ELSE "done",
                     pages |-> filesTask.pages + 1,
                     served |-> IF ok THEN filesTask.served \o page ELSE filesTask.served,
                     files |-> IF ok THEN files ELSE filesTask.files]
        IN  /\ ~ok => (len = 0 /\ ~more)
            /\ ok => first + len <= MaxFiles
            /\ (ok /\ more) => filesTask.pages + 1 < MaxFilePages
            /\ filesTask' = next
            /\ SettleFetch(next, commentsTask, ~ok)
            /\ IF ok /\ more THEN Called("listFiles") ELSE UNCHANGED calls
            /\ IF ok /\ ~more
               THEN Info(<<<<"Found ">> \o NumberToString(Len(files)) \o <<" changed files">>
                           \o (IF options.pathFilter # << >>
                               THEN <<" matching \"">> \o options.pathFilter \o <<"\"">>
                               ELSE << >>)>>)
               ELSE UNCHANGED logs
    /\ UNCHANGED <<inputs, env, eventContext, projectId, tokenRequest, githubToken,
                   existingBotPR, options, pullRequest, commentsTask, payload, stringifyCalls, posts,
                   response, outputs>>

\* fetchComments: the response to an issues.listComments or a
\* pulls.listReviewComments page request
ReceiveCommentsPage ==
    /\ commentsTask.state \in {"issue", "review"}
    /\ \E ok \in BOOLEAN, len \in 0..MaxPageLen, more \in BOOLEAN :
        LET issue == commentsTask.state = "issue"
            first == IF issue THEN Len(commentsTask.servedIssue)
                     ELSE Len(commentsTask.servedReview)
            page == [i \in 1..len |-> IF issue THEN RawIssueComment(first + i)
                                      ELSE RawReviewComment(first + i)]
            mapped == [i \in 1..len |-> IF issue THEN MapIssueComment(page[i])
                                        ELSE MapReviewComment(page[i])]
            comments == commentsTask.comments \o mapped
            next == IF ~ok THEN [commentsTask EXCEPT !.state = "failed"]
                    ELSE [state |-> IF more THEN commentsTask.state
                                    ELSE IF issue THEN "review" ELSE "done",
                          pages |-> IF more THEN commentsTask.pages + 1 ELSE 0,
                          servedIssue |-> IF issue THEN commentsTask.servedIssue \o page
                                          ELSE commentsTask.servedIssue,
                          servedReview |-> IF issue THEN commentsTask.servedReview
                                           ELSE commentsTask.servedReview \o page,
                          comments |-> comments,
                          triggerComment |-> TriggerAfter(mapped, options.triggerCommentId,
                                                          commentsTask.triggerComment)]
        IN  /\ ~ok => (len = 0 /\ ~more)
            /\ ok => Len(commentsTask.servedIssue) + Len(commentsTask.servedReview) + len
                          <= MaxComments
            /\ (ok /\ more) => commentsTask.pages + 1 < MaxCommentPages
            /\ commentsTask' = next
            /\ SettleFetch(filesTask, next, ~ok)
            /\ IF ok /\ more
               THEN Called(IF issue THEN "listComments" ELSE "listReviewComments")
               ELSE IF ok /\ issue THEN Called("listReviewComments")
               ELSE UNCHANGED calls
            /\ IF ok /\ ~more /\ ~issue
               THEN Info(<<<<"Found ">> \o NumberToString(Len(comments)) \o <<" comments">>>>)
               ELSE UNCHANGED logs
    /\ UNCHANGED <<inputs, env, eventContext, projectId, tokenRequest, githubToken,
                   existingBotPR, options, pullRequest, filesTask, payload, stringifyCalls, posts,
                   response, outputs>>

(***************************************************************************)
(* run(): filters, payload, bot-comment check                              *)
(***************************************************************************)
\* Skip that records the skip without its reason
SkipNoReason(reason) ==
    /\ outputs' = [outputs EXCEPT !["skipped"] = <<"true">>]
    /\ pc' = "done"

\* core.setOutput('skipped', 'true'); core.setOutput('skip-reason', reason); return
Skip(reason) ==
    /\ outputs' = [outputs EXCEPT !["skipped"] = <<"true">>, !["skip-reason"] = reason]
    /\ pc' = "done"

\* FilterPath without the return after the skip outputs
FilterPathSkipAndGoOn ==
    /\ pc = "filterPath"
    /\ pc' = "filterTitle"
    /\ IF inputs.pathFilter # << >> /\ Len(prContext.changedFiles) = 0
       THEN /\ outputs' = [outputs EXCEPT !["skipped"] = <<"true">>,
                                          !["skip-reason"] = <<"no-matching-files">>]
            /\ Info(<<<<"No files match path filter \"">> \o inputs.pathFilter
                      \o <<"\". Skipping trigger.">>>>)
       ELSE UNCHANGED <<outputs, logs>>
    /\ UNCHANGED <<inputs, env, eventContext, projectId, tokenRequest, githubToken,
                   existingBotPR, options, pullRequest, filesTask, commentsTask,
                   prContext, payload, stringifyCalls, posts, response, failed, calls>>

\* FilterPath without the empty-list check
FilterPathNoSkip ==
    /\ pc = "filterPath"
    /\ pc' = "filterTitle"
    /\ UNCHANGED <<inputs, env, eventContext, projectId, tokenRequest, githubToken,
                   existingBotPR, options, pullRequest, filesTask, commentsTask,
                   prContext, payload, stringifyCalls, posts, response, outputs,
                   failed, logs, calls>>

\* if (pathFilter && prContext.changedFiles.length === 0)
FilterPath ==
    /\ pc = "filterPath"
    /\ IF inputs.pathFilter # << >> /\ Len(prContext.changedFiles) = 0
       THEN /\ Skip(<<"no-matching-files">>)
            /\ Info(<<<<"No files match path filter \"">> \o inputs.pathFilter
                      \o <<"\". Skipping trigger.">>>>)
       ELSE /\ pc' = "filterTitle"
            /\ UNCHANGED <<outputs, logs>>
    /\ UNCHANGED <<inputs, env, eventContext, projectId, tokenRequest, githubToken,
                   existingBotPR, options, pullRequest, filesTask, commentsTask,
                   prContext, payload, stringifyCalls, posts, response, failed, calls>>

\* FilterTitle that tests the title only when no path filter is given
FilterTitleUnlessPathFilter ==
    /\ pc = "filterTitle"
    /\ IF inputs.prTitleRegex = << >> \/ inputs.pathFilter # << >>
       THEN /\ pc' = "build"
            /\ UNCHANGED <<outputs, logs, failed>>
       ELSE IF ~RegExpValid(inputs.prTitleRegex)
       THEN /\ Fail(<<"Invalid regular expression: /">> \o inputs.prTitleRegex
                    \o <<"/: Unterminated group">>)
            /\ UNCHANGED <<outputs, logs>>
       ELSE IF ~RegExpTest(inputs.prTitleRegex, prContext.pullRequest.title)
       THEN /\ Skip(<<"title-no-match">>)
            /\ Info(<<<<"PR title \"">> \o prContext.pullRequest.title
                      \o <<"\" does not match regex \"">> \o inputs.prTitleRegex
                      \o <<"\". Skipping trigger.">>>>)
            /\ UNCHANGED failed
       ELSE /\ pc' = "build"
            /\ UNCHANGED <<outputs, logs, failed>>
    /\ UNCHANGED <<inputs, env, eventContext, projectId, tokenRequest, githubToken,
                   existingBotPR, options, pullRequest, filesTask, commentsTask,
                   prContext, payload, stringifyCalls, posts, response, calls>>

\* FilterTitle without the skip on a title that does not match
FilterTitleNoSkip ==
    /\ pc = "filterTitle"
    /\ IF inputs.prTitleRegex # << >> /\ ~RegExpValid(inputs.prTitleRegex)
       THEN /\ Fail(<<"Invalid regular expression: /">> \o inputs.prTitleRegex
                    \o <<"/: Unterminated group">>)
            /\ UNCHANGED <<outputs, logs>>
       ELSE /\ pc' = "build"
            /\ UNCHANGED <<outputs, logs, failed>>
    /\ UNCHANGED <<inputs, env, eventContext, projectId, tokenRequest, githubToken,
                   existingBotPR, options, pullRequest, filesTask, commentsTask,
                   prContext, payload, stringifyCalls, posts, response, calls>>

\* if (prTitleRegex) { new RegExp(prTitleRegex).test(prContext.pullRequest.title) }
FilterTitle ==
    /\ pc = "filterTitle"
    /\ IF inputs.prTitleRegex = << >>
       THEN /\ pc' = "build"
            /\ UNCHANGED <<outputs, logs, failed>>
       ELSE IF ~RegExpValid(inputs.prTitleRegex)
       THEN /\ Fail(<<"Invalid regular expression: /">> \o inputs.prTitleRegex
                    \o <<"/: Unterminated group">>)
            /\ UNCHANGED <<outputs, logs>>
       ELSE IF ~RegExpTest(inputs.prTitleRegex, prContext.pullRequest.title)
       THEN /\ Skip(<<"title-no-match">>)
            /\ Info(<<<<"PR title \"">> \o prContext.pullRequest.title
                      \o <<"\" does not match regex \"">> \o inputs.prTitleRegex
                      \o <<"\". Skipping trigger.">>>>)
            /\ UNCHANGED failed
       ELSE /\ pc' = "build"
            /\ UNCHANGED <<outputs, logs, failed>>
    /\ UNCHANGED <<inputs, env, eventContext, projectId, tokenRequest, githubToken,
                   existingBotPR, options, pullRequest, filesTask, commentsTask,
                   prContext, payload, stringifyCalls, posts, response, calls>>

\* BuildPayload that does not wait for the title filter
BuildPayloadEarly ==
    /\ pc \in {"filterTitle", "build"}
    /\ payload' = [event |-> eventContext.event,
                   repository |-> eventContext.repository,
                   pullRequest |-> prContext.pullRequest,
                   sender |-> eventContext.sender,
                   changedFiles |-> prContext.changedFiles,
                   comments |-> prContext.comments,
                   triggerComment |-> prContext.triggerComment]
    /\ pc' = "botComment"
    /\ UNCHANGED <<inputs, env, eventContext, projectId, tokenRequest, githubToken,
                   existingBotPR, options, pullRequest, filesTask, commentsTask,
                   prContext, stringifyCalls, posts, response, outputs, failed, logs, calls>>

\* const payload: TriggerPayload = {...}
BuildPayload ==
    /\ pc = "build"
    /\ payload' = [event |-> eventContext.event,
                   repository |-> eventContext.repository,
                   pullRequest |-> prContext.pullRequest,
                   sender |-> eventContext.sender,
                   changedFiles |-> prContext.changedFiles,
                   comments |-> prContext.comments,
                   triggerComment |-> prContext.triggerComment]
    /\ pc' = "botComment"
    /\ UNCHANGED <<inputs, env, eventContext, projectId, tokenRequest, githubToken,
                   existingBotPR, options, pullRequest, filesTask, commentsTask,
                   prContext, stringifyCalls, posts, response, outputs, failed, logs, calls>>

\* prContext.triggerComment?.author.login === 'inkeep[bot]'
IsBotComment(comment) == comment # Undefined /\ comment.author.login = BotLogin

\* BotCommentCheck without the return after the skip outputs
BotCommentCheckNoReturn ==
    /\ pc = "botComment"
    /\ pc' = "send"
    /\ IF IsBotComment(prContext.triggerComment)
       THEN outputs' = [outputs EXCEPT !["skipped"] = <<"true">>,
                                       !["skip-reason"] = <<"inkeep-bot-comment">>]
       ELSE UNCHANGED outputs
    /\ UNCHANGED <<inputs, env, eventContext, projectId, tokenRequest, githubToken,
                   existingBotPR, options, pullRequest, filesTask, commentsTask,
                   prContext, payload, stringifyCalls, posts, response, failed,
                   logs, calls>>

BotCommentCheck ==
    /\ pc = "botComment"
    /\ IF IsBotComment(prContext.triggerComment)
       THEN /\ Skip(<<"inkeep-bot-comment">>)
            /\ Info(<<<<"Trigger comment was made by Inkeep bot. Skipping trigger.">>>>)
       ELSE /\ pc' = "send"
            /\ UNCHANGED <<outputs, logs>>
    /\ UNCHANGED <<inputs, env, eventContext, projectId, tokenRequest, githubToken,
                   existingBotPR, options, pullRequest, filesTask, commentsTask,
                   prContext, payload, stringifyCalls, posts, response, failed, calls>>

(***************************************************************************)
(* sendTrigger                                                             *)
(***************************************************************************)
\* TriggerHeaders with the signature computed over a second, pretty-printed
\* serialization instead of the body
TriggerHeadersResigned(body, signingSecret) ==
    [h \in {"Content-Type", "User-Agent"}
           \cup (IF signingSecret # << >> THEN {"X-Signature-256"} ELSE {}) |->
        CASE h = "Content-Type" -> <<"application/json">>
          [] h = "User-Agent" -> <<"inkeep-agents-action/">> \o PACKAGE_VERSION
          [] OTHER -> computeSignature(<<" ">> \o body, signingSecret)]

\* TriggerHeaders without the test on the signing secret
TriggerHeadersAlwaysSigned(body, signingSecret) ==
    [h \in {"Content-Type", "User-Agent", "X-Signature-256"} |->
        CASE h = "Content-Type" -> <<"application/json">>
          [] h = "User-Agent" -> <<"inkeep-agents-action/">> \o PACKAGE_VERSION
          [] OTHER -> computeSignature(body, signingSecret)]

\* the headers of the trigger request for a serialized body
TriggerHeaders(body, signingSecret) ==
    [h \in {"Content-Type", "User-Agent"}
           \cup (IF signingSecret # << >> THEN {"X-Signature-256"} ELSE {}) |->
        CASE h = "Content-Type" -> <<"application/json">>
          [] h = "User-Agent" -> <<"inkeep-agents-action/">> \o PACKAGE_VERSION
          [] OTHER -> computeSignature(body, signingSecret)]

\* the line sendTrigger logs before the request
SendingLine(triggerUrl) == <<"Sending trigger to: ">> \o triggerUrl

\* SendTrigger that stays at the dispatch step, so that the POST is repeated
SendTriggerRetry ==
    /\ pc = "send"
    /\ LET body == JSONStringify(payload)
       IN  posts' = Append(posts, [url |-> inputs.triggerUrl, method |-> "POST",
                                   headers |-> TriggerHeaders(body, inputs.signingSecret),
                                   body |-> body])
    /\ stringifyCalls' = stringifyCalls + 1
    /\ Info(<<SendingLine(inputs.triggerUrl)>>)
    /\ Called("trigger")
    /\ UNCHANGED <<inputs, env, pc, eventContext, projectId, tokenRequest, githubToken,
                   existingBotPR, options, pullRequest, filesTask, commentsTask,
                   prContext, payload, response, outputs, failed>>

\* sendTrigger up to the fetch: the payload is serialized, signed, logged and POSTed
SendTrigger ==
    /\ pc = "send"
    /\ LET body == JSONStringify(payload)
       IN  posts' = Append(posts, [url |-> inputs.triggerUrl, method |-> "POST",
                                   headers |-> TriggerHeaders(body, inputs.signingSecret),
                                   body |-> body])
    /\ stringifyCalls' = stringifyCalls + 1
    /\ Info(<<SendingLine(inputs.triggerUrl)>>)
    /\ Called("trigger")
    /\ pc' = "awaitResponse"
    /\ UNCHANGED <<inputs, env, eventContext, projectId, tokenRequest, githubToken,
                   existingBotPR, options, pullRequest, filesTask, commentsTask,
                   prContext, payload, response, outputs, failed>>

\* what the trigger URL may answer; status 0 stands for a rejected fetch
TriggerResponses ==
    { [status |-> 202, text |-> JsonText(val)] : val \in JsonValues }
    \cup { [status |-> 200, text |-> <<"OK">>],
           [status |-> 403, text |-> <<"forbidden">>],
           [status |-> 500, text |-> JsonText(JObj(NoMembers))],
           [status |-> 0, text |-> << >>] }

ResponseOk(resp) == resp.status \in 200..299

\* DeliveryFailedMessage without the response body
DeliveryFailedMessageNoBody(resp, triggerUrl) ==
    <<"Trigger request failed (">> \o NumberToString(resp.status) \o <<")">>
    \o <<"\nURL: ">> \o URLWithoutSearch(triggerUrl)

\* the message of the error sendTrigger throws on a non-2xx response
DeliveryFailedMessage(resp, triggerUrl) ==
    <<"Trigger request failed (">> \o NumberToString(resp.status) \o <<"): ">>
    \o resp.text \o <<"\nURL: ">> \o URLWithoutSearch(triggerUrl)

\* the partial response sendTrigger builds when the schema rejects the body
PartialResponse(data) ==
    [success |-> Truthy(Member(data, "success")),
     invocationId |-> StringOf(Or(Or(Member(data, "invocationId"),
                                     Member(data, "invocation_id")), JString(""))),
     conversationId |-> StringOf(Or(Or(Member(data, "conversationId"),
                                       Member(data, "conversation_id")), JString("")))]

\* sendTrigger after the fetch: what it returns or throws for a response
sendTrigger(resp, triggerUrl) ==
    IF resp.status = 0 THEN Thrown(<<"fetch failed">>)
    ELSE IF ~ResponseOk(resp) THEN Thrown(DeliveryFailedMessage(resp, triggerUrl))
    ELSE LET parsed == JSONParse(resp.text)
         IN  IF parsed.threw
             THEN Thrown(<<"Invalid JSON response from trigger: ">> \o resp.text)
             ELSE LET result == TriggerResponseSchema(parsed.value)
                  IN  IF result.success THEN Returned(result.data)
                      ELSE IF parsed.value = JNull
                      THEN Thrown(<<"Cannot read properties of null (reading 'success')">>)
                      ELSE Returned(PartialResponse(parsed.value))

\* the warning sendTrigger logs for a response
ResponseWarnings(resp) ==
    IF ResponseOk(resp) /\ ~JSONParse(resp.text).threw
       /\ ~TriggerResponseSchema(JSONParse(resp.text).value).success
    THEN <<<<"Response validation warning: ">>
           \o TriggerResponseSchema(JSONParse(resp.text).value).error>>
    ELSE << >>

\* ReceiveTriggerResponse that sets the invocation-id output only
ReceiveTriggerResponseOneOutput ==
    /\ pc = "awaitResponse"
    /\ \E resp \in TriggerResponses :
        LET r == sendTrigger(resp, inputs.triggerUrl)
        IN  /\ response' = resp
            /\ IF r.threw
               THEN /\ Fail(r.message)
                    /\ Info(ResponseWarnings(resp))
                    /\ UNCHANGED outputs
               ELSE /\ outputs' = [outputs EXCEPT
                                     !["invocation-id"] = r.value.invocationId]
                    /\ Info(ResponseWarnings(resp) \o <<<<"Trigger successful!">>>>)
                    /\ pc' = "done"
                    /\ UNCHANGED failed
    /\ UNCHANGED <<inputs, env, eventContext, projectId, tokenRequest, githubToken,
                   existingBotPR, options, pullRequest, filesTask, commentsTask,
                   prContext, payload, stringifyCalls, posts, calls>>

\* the response arrives: sendTrigger returns or throws, run sets the outputs
ReceiveTriggerResponse ==
    /\ pc = "awaitResponse"
    /\ \E resp \in TriggerResponses :
        LET r == sendTrigger(resp, inputs.triggerUrl)
        IN  /\ response' = resp
            /\ IF r.threw
               THEN /\ Fail(r.message)
                    /\ Info(ResponseWarnings(resp))
                    /\ UNCHANGED outputs
               ELSE /\ outputs' = [outputs EXCEPT
                                     !["invocation-id"] = r.value.invocationId,
                                     !["conversation-id"] = r.value.conversationId]
                    /\ Info(ResponseWarnings(resp)
                            \o <<<<"Trigger successful!">>,
                                 <<"  Invocation ID: ">> \o r.value.invocationId,
                                 <<"  Conversation ID: ">> \o r.value.conversationId>>)
                    /\ pc' = "done"
                    /\ UNCHANGED failed
    /\ UNCHANGED <<inputs, env, eventContext, projectId, tokenRequest, githubToken,
                   existingBotPR, options, pullRequest, filesTask, commentsTask,
                   prContext, payload, stringifyCalls, posts, calls>>

(***************************************************************************)
(* Specification                                                           *)
(***************************************************************************)
Next ==
    \/ GetInputs
    \/ ParseEvent
    \/ GetProjectId
    \/ GetTokenOverride
    \/ RequestIDToken
    \/ TokenExchangeResponse
    \/ CheckBotPR
    \/ FetchPullRequest
    \/ ReceiveFilesPage
    \/ ReceiveCommentsPage
    \/ FilterPath
    \/ FilterTitle
    \/ BuildPayload
    \/ BotCommentCheck
    \/ SendTrigger
    \/ ReceiveTriggerResponse

Spec == Init /\ [][Next]_vars

(***************************************************************************)
(* fetchChangedFiles called with includeContents (fetchPRContext passes    *)
(* options.includeContents; the run() above leaves the option out):        *)
(* the page loop awaits repos.getContent for one file at a time.  The task *)
(* also holds the files of the current page still to go through (pending), *)
(* whether that page named a next one (more), the content requests issued  *)
(* and the outcome of each.                                                *)
(***************************************************************************)
\* NeedsContent without the test on the file status
NeedsContentAlways(file, includeContents) == includeContents

\* if (includeContents && file.status !== 'removed')
NeedsContent(file, includeContents) == includeContents /\ file.status # "removed"

\* a getContent response: a base64 file, anything else (a directory, another
\* encoding), or a rejected request
ContentOutcomes == {"base64", "other", "error"}

\* Buffer.from(content.content, 'base64').toString('utf-8')
DecodedContent(file) == <<"contents of ">> \o file.filename

\* the page loop up to its next await: files the filter drops are passed over,
\* files that need no contents are pushed, a file that needs them stops the
\* loop at its getContent request; with no file left the next page is
\* requested or the list is returned
RECURSIVE Drain(_, _, _)
Drain(task, opts, headSha) ==
    IF task.pending = << >>
    THEN [task EXCEPT !.state = IF task.more THEN "paging" ELSE "done"]
    ELSE LET file == Head(task.pending)
         IN  IF ~PassesPathFilter(file, opts.pathFilter)
             THEN Drain([task EXCEPT !.pending = Tail(@)], opts, headSha)
             ELSE IF NeedsContent(file, opts.includeContents)
             THEN [task EXCEPT !.state = "content",
                               !.requests = Append(@, [path |-> file.filename,
                                                       ref |-> headSha])]
             ELSE Drain([task EXCEPT !.pending = Tail(@),
                                     !.files = Append(@, MapChangedFile(file, FALSE))],
                        opts, headSha)

\* run() has come to fetchPRContext, called with these options
InitFetcher ==
    /\ inputs \in { i \in Inputs : ProfileOf(i) = MainProfile /\ i.prTitleRegex = << >> }
    /\ env = PullRequestEnv
    /\ pc = "pulls.get"
    /\ eventContext = parseEventContext(env).value
    /\ projectId = getProjectIdFromTriggerUrl(inputs.triggerUrl).value
    /\ tokenRequest = Undefined
    /\ githubToken = inputs.githubToken
    /\ existingBotPR = Null
    /\ \E includeContents \in BOOLEAN :
          options = [pathFilter |-> inputs.pathFilter, includeContents |-> includeContents,
                     triggerCommentId |-> eventContext.triggerCommentId]
    /\ pullRequest = Undefined
    /\ filesTask = [state |-> "idle", pages |-> 0, served |-> << >>, files |-> << >>,
                    pending |-> << >>, more |-> FALSE, requests |-> << >>,
                    outcomes |-> << >>]
    /\ commentsTask = IdleComments
    /\ prContext = Undefined
    /\ payload = Undefined
    /\ stringifyCalls = 0
    /\ posts = << >>
    /\ response = Undefined
    /\ outputs = [n \in OutputNames |-> UndefinedStr]
    /\ failed = UndefinedStr
    /\ logs = {}
    /\ calls = [k \in CallKinds |-> IF k = "searchBotPR" THEN 1 ELSE 0]

\* FetchPullRequestWithContents that starts the two sub-fetches without the
\* result of fetchPullRequest
FetchPullRequestUnawaited ==
    /\ pc = "pulls.get"
    /\ \E ok \in BOOLEAN :
        /\ IF ok
           THEN /\ pullRequest' = fetchPullRequest(
                        RawPullRequest(eventContext.pullRequestNumber,
                                       <<"docs", ": update guide">>))
                /\ pc' = "fetching"
                /\ UNCHANGED failed
           ELSE /\ Fail(ApiError)
                /\ UNCHANGED pullRequest
        /\ filesTask' = [filesTask EXCEPT !.state = "paging"]
        /\ commentsTask' = [commentsTask EXCEPT !.state = "issue"]
        /\ calls' = [calls EXCEPT !["pulls.get"] = @ + 1, !["listFiles"] = @ + 1,
                                  !["listComments"] = @ + 1]
    /\ UNCHANGED <<inputs, env, eventContext, projectId, tokenRequest, githubToken,
                   existingBotPR, options, prContext, payload, stringifyCalls, posts,
                   response, outputs, logs>>

\* fetchPRContext: fetchPullRequest is awaited, then both sub-fetches are
\* started and each requests its first page
FetchPullRequestWithContents ==
    /\ pc = "pulls.get"
    /\ \E ok \in BOOLEAN, title \in Titles :
        LET n == NumberToString(eventContext.pullRequestNumber)
            details == <<"Fetching PR #">> \o n \o <<" details">>
        IN  IF ~ok
            THEN /\ Fail(ApiError)
                 /\ Info(<<details>>)
                 /\ Called("pulls.get")
                 /\ UNCHANGED <<pullRequest, filesTask, commentsTask>>
            ELSE /\ pullRequest' =
                        fetchPullRequest(RawPullRequest(eventContext.pullRequestNumber, title))
                 /\ filesTask' = [filesTask EXCEPT !.state = "paging"]
                 /\ commentsTask' = [commentsTask EXCEPT !.state = "issue"]
                 /\ pc' = "fetching"
                 /\ Info(<<details, <<"Fetching PR #">> \o n \o <<" changed files">>,
                           <<"Fetching PR #">> \o n \o <<" comments">>>>)
                 /\ calls' = [calls EXCEPT !["pulls.get"] = @ + 1, !["listFiles"] = @ + 1,
                                           !["listComments"] = @ + 1]
                 /\ UNCHANGED failed
    /\ UNCHANGED <<inputs, env, eventContext, projectId, tokenRequest, githubToken,
                   existingBotPR, options, prContext, payload, stringifyCalls, posts,
                   response, outputs>>

\* the request the page loop issues when it stops, and the line it logs when
\* it returns
AfterDrain(next) ==
    /\ calls' = IF next.state = "content" THEN [calls EXCEPT !["getContent"] = @ + 1]
                ELSE IF next.state = "paging" THEN [calls EXCEPT !["listFiles"] = @ + 1]
                ELSE calls
    /\ SettleFetch(next, commentsTask, next.state = "failed")

FoundLine(next) ==
    IF next.state = "done"
    THEN <<<<"Found ">> \o NumberToString(Len(next.files)) \o <<" changed files">>
           \o (IF options.pathFilter # << >>
               THEN <<" matching \"">> \o options.pathFilter \o <<"\"">>
               ELSE << >>)>>
    ELSE << >>

\* the response to a pulls.listFiles page request
ReceiveFilesPageWithContents ==
    /\ filesTask.state = "paging"
    /\ \E ok \in BOOLEAN, len \in 0..MaxPageLen, more \in BOOLEAN :
        LET first == Len(filesTask.served)
            page == [i \in 1..len |-> RawFile(first + i)]
            next == IF ~ok
                    THEN [filesTask EXCEPT !.state = "failed", !.pages = @ + 1]
                    ELSE Drain([filesTask EXCEPT !.pages = @ + 1, !.served = @ \o page,
                                                 !.pending = page, !.more = more],
                               options, pullRequest.head.sha)
        IN  /\ ~ok => (len = 0 /\ ~more)
            /\ ok => first + len <= MaxFiles
            /\ (ok /\ more) => filesTask.pages + 1 < MaxFilePages
            /\ filesTask' = next
            /\ AfterDrain(next)
            /\ Info(FoundLine(next))
    /\ UNCHANGED <<inputs, env, eventContext, projectId, tokenRequest, githubToken,
                   existingBotPR, options, pullRequest, commentsTask, payload,
                   stringifyCalls, posts, response, outputs>>

\* the response to the repos.getContent request of the file the loop stopped
\* at: the file is pushed, with its contents when they came as base64, and
\* the loop goes on
ReceiveContent ==
    /\ filesTask.state = "content"
    /\ \E outcome \in ContentOutcomes :
        LET file == Head(filesTask.pending)
            changedFile == [MapChangedFile(file, FALSE) EXCEPT
                               !.contents = IF outcome = "base64" THEN DecodedContent(file)
                                            ELSE UndefinedStr]
            next == Drain([filesTask EXCEPT !.pending = Tail(@),
                                            !.files = Append(@, changedFile),
                                            !.outcomes = Append(@, outcome)],
                          options, pullRequest.head.sha)
        IN  /\ filesTask' = next
            /\ AfterDrain(next)
            /\ Info((IF outcome = "error"
                     THEN <<<<"Failed to fetch contents for ">> \o file.filename
                            \o <<": ">> \o ApiError>>
                     ELSE << >>) \o FoundLine(next))
    /\ UNCHANGED <<inputs, env, eventContext, projectId, tokenRequest, githubToken,
                   existingBotPR, options, pullRequest, commentsTask, payload,
                   stringifyCalls, posts, response, outputs>>

NextFetcher ==
    \/ FetchPullRequestWithContents
    \/ ReceiveFilesPageWithContents
    \/ ReceiveContent
    \/ ReceiveCommentsPage

FetcherSpec == InitFetcher /\ [][NextFetcher]_vars

(***************************************************************************)
(* Properties                                                              *)
(***************************************************************************)
Unset(name) == outputs[name] = UndefinedStr

Skipped == outputs["skipped"] = <<"true">>

SkipReason == outputs["skip-reason"]

HasFailed == failed # UndefinedStr

\* the file names of a list of upstream files that match a pattern
MatchingNames(served, pattern) ==
    LET kept == SelectSeq(served, LAMBDA file : minimatch(file.filename, pattern))
    IN  [i \in 1..Len(kept) |-> kept[i].filename]

PathsOf(files) == [i \in 1..Len(files) |-> files[i].path]

\* C1: the payload is POSTed whole or not at all: at most one POST per run,
\* its body is the serialization of the assembled payload, and there is no
\* POST in a run that skipped or that failed before the dispatch step.
C1_FullPayloadOrNoCall ==
    /\ Len(posts) <= 1
    /\ calls["trigger"] = Len(posts)
    /\ pc \notin {"awaitResponse", "done"} => posts = << >>
    /\ Skipped => posts = << >>
    /\ (HasFailed /\ response = Undefined) => posts = << >>
    /\ \A i \in 1..Len(posts) :
        /\ posts[i].url = inputs.triggerUrl
        /\ posts[i].method = "POST"
        /\ posts[i].body = JSONStringify(payload)
        /\ payload.event = eventContext.event
        /\ payload.repository = eventContext.repository
        /\ payload.sender = eventContext.sender
        /\ payload.pullRequest = prContext.pullRequest
        /\ payload.changedFiles = prContext.changedFiles
        /\ payload.comments = prContext.comments
        /\ payload.triggerComment = prContext.triggerComment
    /\ (pc = "done" /\ posts # << >>) => response # Undefined

C1_Witness ==
    /\ pc = "done"
    /\ Len(posts) = 1
    /\ Len(payload.changedFiles) > 0
    /\ Len(payload.comments) > 0

\* C2: once the Context Fetcher has returned an empty changed-file list under
\* a non-empty path filter, the run ends with skipped=true and
\* skip-reason=no-matching-files, and nothing is POSTed.
C2_EmptyFilteredListSkips ==
    (/\ prContext # Undefined
     /\ inputs.pathFilter # << >>
     /\ Len(prContext.changedFiles) = 0)
    => /\ posts = << >>
       /\ calls["trigger"] = 0
       /\ pc \in {"filterPath", "done"}
       /\ pc = "done" => /\ Skipped
                         /\ SkipReason = <<"no-matching-files">>
                         /\ ~HasFailed

C2_Witness ==
    /\ pc = "done"
    /\ SkipReason = <<"no-matching-files">>
    /\ PathsOf(filesTask.files) = << >>
    /\ Len(filesTask.served) = 2
    /\ inputs.pathFilter = <<"docs", "/", "**">>

\* C3: under a path filter, the changed files accumulated after any number of
\* pages, those of the PRContext and those of the payload are exactly the
\* upstream files whose name matches the filter, in upstream order.
C3_ChangedFilesAreFilteredSet ==
    inputs.pathFilter # << >> =>
        /\ \A i \in 1..Len(filesTask.files) :
                minimatch(filesTask.files[i].path, inputs.pathFilter)
        /\ PathsOf(filesTask.files) = MatchingNames(filesTask.served, inputs.pathFilter)
        /\ prContext # Undefined =>
                /\ filesTask.state = "done"
                /\ prContext.changedFiles = filesTask.files
        /\ payload # Undefined => payload.changedFiles = filesTask.files

C3_Witness ==
    /\ posts # << >>
    /\ inputs.pathFilter # << >>
    /\ filesTask.pages >= 2
    /\ Len(payload.changedFiles) > 0
    /\ Len(payload.changedFiles) < Len(filesTask.served)

\* the triggering comment of the PRContext was written by the bot
BotTriggered ==
    /\ prContext # Undefined
    /\ prContext.triggerComment # Undefined
    /\ prContext.triggerComment.author.login = <<"inkeep[bot]">>

\* C4 as stated: a bot-authored trigger comment gives skip-reason
\* inkeep-bot-comment whatever the other filters do, and no dispatch.
C4_BotCommentReasonAlways ==
    (BotTriggered /\ pc = "done")
    => /\ SkipReason = <<"inkeep-bot-comment">>
       /\ posts = << >>

PathFilterSkips == inputs.pathFilter # << >> /\ Len(prContext.changedFiles) = 0

TitleFilterSkips ==
    /\ inputs.prTitleRegex # << >>
    /\ RegExpValid(inputs.prTitleRegex)
    /\ ~RegExpTest(inputs.prTitleRegex, prContext.pullRequest.title)

TitleFilterThrows == inputs.prTitleRegex # << >> /\ ~RegExpValid(inputs.prTitleRegex)

\* C4 (amended): a bot-authored trigger comment never leads to a dispatch;
\* the run ends skipped with reason inkeep-bot-comment unless the path filter
\* or the title filter ended it first, with their own skip-reason or with
\* the failure on an invalid title expression.
C4_BotCommentNeverDispatched ==
    BotTriggered =>
        /\ posts = << >>
        /\ pc \in {"filterPath", "filterTitle", "build", "botComment", "done"}
        /\ pc = "done" =>
            IF PathFilterSkips
            THEN Skipped /\ SkipReason = <<"no-matching-files">> /\ ~HasFailed
            ELSE IF TitleFilterThrows
            THEN HasFailed /\ ~Skipped
            ELSE IF TitleFilterSkips
            THEN Skipped /\ SkipReason = <<"title-no-match">> /\ ~HasFailed
            ELSE Skipped /\ SkipReason = <<"inkeep-bot-comment">> /\ ~HasFailed

C4_Witness ==
    /\ BotTriggered
    /\ pc = "done"
    /\ SkipReason = <<"inkeep-bot-comment">>
    /\ inputs.pathFilter # << >>
    /\ inputs.prTitleRegex # << >>

\* C5: when the companion query finds a bot pull request that references the
\* current one, the run ends skipped with reason bot-pr-exists, the outputs
\* carry its number and URL, and nothing is fetched further or POSTed.
C5_BotPRExistsSkips ==
    (existingBotPR # Undefined /\ existingBotPR # Null)
    => /\ pc = "done"
       /\ Skipped
       /\ SkipReason = <<"bot-pr-exists">>
       /\ outputs["existing-bot-pr-number"] = NumberToString(existingBotPR.number)
       /\ outputs["existing-bot-pr-url"] = existingBotPR.url
       /\ ~HasFailed
       /\ posts = << >>
       /\ calls["trigger"] = 0
       /\ calls["pulls.get"] = 0

C5_Witness ==
    /\ pc = "done"
    /\ SkipReason = <<"bot-pr-exists">>
    /\ outputs["existing-bot-pr-number"] = <<"1", "2">>

\* the query string of the trigger URL occurs in a text
HasQuery(text) ==
    /\ URLValid(inputs.triggerUrl)
    /\ URLSearch(inputs.triggerUrl) # << >>
    /\ Contains(text, URLSearch(inputs.triggerUrl))

\* C6: in a run that dispatches, no logged line and no failure message
\* contains the query string of the trigger URL.
C6_NoQueryStringLogged ==
    posts # << >> =>
        /\ \A line \in logs : ~HasQuery(line)
        /\ HasFailed => ~HasQuery(failed)

\* C7: the payload is serialized once per dispatch and the signature header
\* is the keyed hash of exactly the bytes sent as the request body.
C7_SignatureCoversBodySent ==
    /\ stringifyCalls = Len(posts)
    /\ \A i \in 1..Len(posts) :
        "X-Signature-256" \in DOMAIN posts[i].headers =>
            posts[i].headers["X-Signature-256"]
                = <<"sha256=">> \o HmacSha256Hex(inputs.signingSecret, posts[i].body)

C7_Witness ==
    /\ Len(posts) = 1
    /\ "X-Signature-256" \in DOMAIN posts[1].headers
    /\ inputs.signingSecret = <<"s">>

\* C8: every dispatch request has a Content-Type header and a User-Agent
\* header with the version, and has an X-Signature-256 header of the form
\* sha256=<hex> exactly when a signing secret was supplied.
C8_RequestHeaders ==
    \A i \in 1..Len(posts) :
        LET headers == posts[i].headers
        IN  /\ {"Content-Type", "User-Agent"} \subseteq DOMAIN headers
            /\ headers["Content-Type"] = <<"application/json">>
            /\ headers["User-Agent"] = <<"inkeep-agents-action/", "0.1.0">>
            /\ "X-Signature-256" \in DOMAIN headers <=> inputs.signingSecret # << >>
            /\ "X-Signature-256" \in DOMAIN headers =>
                    /\ headers["X-Signature-256"][1] = "sha256="
                    /\ Len(headers["X-Signature-256"]) > 1
            /\ DOMAIN headers \subseteq {"Content-Type", "User-Agent", "X-Signature-256"}

C8_Witness ==
    /\ Len(posts) = 1
    /\ inputs.signingSecret = << >>
    /\ "X-Signature-256" \notin DOMAIN posts[1].headers
    /\ pc = "done"

\* the response is a 2xx whose body is JSON that the response schema rejects
SchemaRejected ==
    /\ response # Undefined
    /\ ResponseOk(response)
    /\ ~JSONParse(response.text).threw
    /\ ~TriggerResponseSchema(JSONParse(response.text).value).success

\* C9: a 2xx response whose JSON body fails the response schema does not fail
\* the run, and the invocation-id and conversation-id outputs are set.
C9_MalformedAckDoesNotFail ==
    SchemaRejected =>
        /\ ~HasFailed
        /\ ~Unset("invocation-id")
        /\ ~Unset("conversation-id")

\* C10: a non-2xx response fails the run with a message that has the status
\* and the body in it, and invocation-id and conversation-id stay unset.
C10_Non2xxFails ==
    (response # Undefined /\ response.status # 0 /\ response.status \notin 200..299)
    => /\ pc = "done"
       /\ HasFailed
       /\ Contains(failed, NumberToString(response.status))
       /\ Contains(failed, response.text)
       /\ Unset("invocation-id")
       /\ Unset("conversation-id")

C10_Witness ==
    /\ response # Undefined
    /\ response.status = 403
    /\ response.text = <<"forbidden">>
    /\ HasFailed

\* C11: a payload that fails TriggerPayloadSchema is never dispatched: every
\* run that POSTs to the trigger URL POSTs a payload the schema accepts.
C11_InvalidPayloadNeverDispatched ==
    posts # << >> => TriggerPayloadSchema(payload)

\* the path of a valid trigger URL has no segment after a 'projects' component
NoProjectSegment(url) ==
    /\ URLValid(url)
    /\ LET path == URLPathname(url)
       IN  IndexOf(path, "projects") \in {0, Len(path)}

NoRemoteCall == \A kind \in CallKinds : calls[kind] = 0

\* C12: a run whose trigger URL has no path segment after 'projects' issues no
\* remote call at all (no identity assertion, no token exchange, no GitHub
\* request, no dispatch) and, once the event is resolved, ends failed with the
\* invalid-trigger-URL error.
C12_InvalidTriggerUrlBeforeNetwork ==
    NoProjectSegment(inputs.triggerUrl) =>
        /\ NoRemoteCall
        /\ tokenRequest = Undefined
        /\ posts = << >>
        /\ pc \in {"inputs", "parse", "projectId", "done"}
        /\ pc = "done" => HasFailed
        /\ (pc = "done" /\ eventContext # Undefined) =>
               failed = <<"Invalid trigger URL format: could not extract project ID from ">>
                        \o inputs.triggerUrl

C12_Witness ==
    /\ NoProjectSegment(inputs.triggerUrl)
    /\ IndexOf(URLPathname(inputs.triggerUrl), "projects") # 0
    /\ eventContext # Undefined
    /\ pc = "done"
    /\ HasFailed

\* the event file was read and parsed, and names its repository and sender
EventReadable ==
    /\ env.GITHUB_EVENT_NAME # << >>
    /\ env.GITHUB_EVENT_PATH # << >>
    /\ env.eventFile = "ok"

EventWellFormed ==
    /\ EventReadable
    /\ env.eventPayload.repository # Undefined
    /\ env.eventPayload.sender # Undefined

\* an issue_comment event whose issue has no pull-request back-reference
PlainIssueComment ==
    /\ EventReadable
    /\ env.GITHUB_EVENT_NAME = <<"issue_comment">>
    /\ \/ env.eventPayload.issue = Undefined
       \/ ~env.eventPayload.issue.pull_request

HandledKinds ==
    {<<"pull_request">>, <<"pull_request_review">>, <<"issue_comment">>,
     <<"pull_request_review_comment">>}

\* the run stopped in the Event Resolver, or has not got past it, and has
\* issued no remote call
StoppedInResolver ==
    /\ NoRemoteCall
    /\ tokenRequest = Undefined
    /\ githubToken = UndefinedStr
    /\ posts = << >>
    /\ eventContext = Undefined
    /\ pc \in {"inputs", "parse", "done"}
    /\ pc = "done" => HasFailed

CouldNotDetermine ==
    <<"Could not determine pull request number from event \"">>
    \o env.GITHUB_EVENT_NAME
    \o <<"\". This action only supports pull_request, issue_comment",
         " (on PRs), and pull_request_review events.">>

\* C13: on an issue_comment event whose issue has no pull-request
\* back-reference the run never requests an identity assertion, never POSTs a
\* token exchange and issues no later remote call; with the inputs supplied and
\* the event naming its repository and sender it ends failed with the
\* not-a-pull-request error.
C13_PlainIssueFailsBeforeExchange ==
    PlainIssueComment =>
        /\ StoppedInResolver
        /\ (pc = "done" /\ EventWellFormed /\ inputs.triggerUrl # << >>) =>
               failed = <<"issue_comment event is not associated with a pull request.",
                          " This action only supports PR comments.">>

C13_Witness ==
    /\ PlainIssueComment
    /\ pc = "done"
    /\ Contains(failed, <<"issue_comment event is not associated with a pull request.">>)
    /\ calls["getIDToken"] = 0 /\ calls["tokenExchange"] = 0

\* no pull request number can be resolved from the event: a handled kind
\* without its pull_request object, a comment on a plain issue, or a kind that
\* is not handled
Unresolvable ==
    /\ EventReadable
    /\ \/ /\ env.GITHUB_EVENT_NAME \in HandledKinds \ {<<"issue_comment">>}
          /\ env.eventPayload.pull_request = Undefined
       \/ PlainIssueComment
       \/ env.GITHUB_EVENT_NAME \notin HandledKinds

\* C14: a run whose event has no resolvable pull request number stops in the
\* Event Resolver with an error and makes no remote call; for a handled kind
\* without its pull_request object the error is the could-not-determine one.
C14_UnresolvableNumberFails ==
    Unresolvable =>
        /\ StoppedInResolver
        /\ (/\ pc = "done" /\ EventWellFormed /\ inputs.triggerUrl # << >>
            /\ env.GITHUB_EVENT_NAME # <<"issue_comment">>) =>
               failed = CouldNotDetermine

C14_Witness ==
    /\ env.GITHUB_EVENT_NAME \in HandledKinds \ {<<"issue_comment">>}
    /\ EventWellFormed
    /\ env.eventPayload.pull_request = Undefined
    /\ pc = "done"
    /\ failed = CouldNotDetermine
    /\ NoRemoteCall

\* C15: an event whose type tag is none of the four handled kinds makes the
\* Event Resolver fail, also when the event body carries a pull_request object
\* with a number.
C15_UnsupportedEventFails ==
    (EventReadable /\ env.GITHUB_EVENT_NAME \notin HandledKinds) =>
        /\ eventContext = Undefined
        /\ pc \in {"inputs", "parse", "done"}
        /\ pc = "done" => HasFailed
        /\ (pc = "done" /\ EventWellFormed /\ inputs.triggerUrl # << >>) =>
               failed = CouldNotDetermine

C15_Witness ==
    /\ EventWellFormed
    /\ env.GITHUB_EVENT_NAME \notin HandledKinds
    /\ env.eventPayload.pull_request # Undefined
    /\ env.eventPayload.pull_request.number = PRNumber
    /\ pc = "done"
    /\ failed = CouldNotDetermine

\* C16: with an override token the run never requests an identity assertion
\* and never POSTs a token exchange, and the token it goes on with is the
\* override token itself.
C16_OverrideTokenVerbatim ==
    inputs.githubToken # << >> =>
        /\ calls["getIDToken"] = 0
        /\ calls["tokenExchange"] = 0
        /\ tokenRequest = Undefined
        /\ githubToken \in {UndefinedStr, inputs.githubToken}
        /\ pc \in {"botpr", "pulls.get", "fetching", "filterPath", "filterTitle", "build",
                    "botComment", "send", "awaitResponse"} =>
               githubToken = inputs.githubToken

C16_Witness ==
    /\ inputs.githubToken = Override
    /\ githubToken = Override
    /\ calls["searchBotPR"] = 1
    /\ calls["getIDToken"] = 0
    /\ calls["tokenExchange"] = 0

\* the skip-reason, or pass, of the two filters evaluated path filter first
PathThenTitle ==
    IF PathFilterSkips THEN <<"no-matching-files">>
    ELSE IF TitleFilterSkips THEN <<"title-no-match">>
    ELSE <<"pass">>

\* the same with the title filter evaluated first
TitleThenPath ==
    IF TitleFilterSkips THEN <<"title-no-match">>
    ELSE IF PathFilterSkips THEN <<"no-matching-files">>
    ELSE <<"pass">>

FilterSkipped == Skipped /\ SkipReason \in {<<"no-matching-files">>, <<"title-no-match">>}

\* C17: once both filters have been evaluated (the title expression being a
\* valid one), the run has been skipped by a filter exactly when the filters
\* evaluated in the other order, title first, would skip it; a filter skip
\* ends the run without dispatch, a pass leads on to the dispatch unless the
\* trigger comment is the agent's own, and only the reported reason follows
\* the order the run uses.
C17_FilterOrderIndependent ==
    (prContext # Undefined /\ ~TitleFilterThrows /\ pc \notin {"filterPath", "filterTitle"}) =>
        /\ FilterSkipped <=> TitleThenPath # <<"pass">>
        /\ FilterSkipped <=> PathThenTitle # <<"pass">>
        /\ FilterSkipped =>
              /\ pc = "done"
              /\ posts = << >>
              /\ ~HasFailed
              /\ SkipReason = PathThenTitle
        /\ (~FilterSkipped /\ ~BotTriggered /\ pc \in {"awaitResponse", "done"}) =>
              Len(posts) = 1

C17_Witness ==
    /\ prContext # Undefined
    /\ PathFilterSkips
    /\ TitleFilterSkips
    /\ pc = "done"
    /\ SkipReason = <<"no-matching-files">>
    /\ TitleThenPath = <<"title-no-match">>

\* C18 as stated: with a title expression that pullRequest.title does not
\* match, the run skips with reason title-no-match and does not dispatch; with
\* one that matches, the reason is never title-no-match.
C18_TitleNoMatchReason ==
    (prContext # Undefined /\ inputs.prTitleRegex # << >>
     /\ RegExpValid(inputs.prTitleRegex) /\ pc = "done") =>
        IF RegExpTest(inputs.prTitleRegex, prContext.pullRequest.title)
        THEN SkipReason # <<"title-no-match">>
        ELSE Skipped /\ SkipReason = <<"title-no-match">> /\ posts = << >>

\* C18 (amended): with a title expression that pullRequest.title does not
\* match, the run ends skipped without dispatch, with reason title-no-match
\* unless the path filter, which is evaluated first, already ended it with
\* no-matching-files; with one that matches, the reason is never
\* title-no-match.
C18_TitleFilterSkips ==
    (prContext # Undefined /\ inputs.prTitleRegex # << >>
     /\ RegExpValid(inputs.prTitleRegex)) =>
        IF RegExpTest(inputs.prTitleRegex, prContext.pullRequest.title)
        THEN SkipReason # <<"title-no-match">>
        ELSE /\ posts = << >>
             /\ pc \in {"filterPath", "filterTitle", "done"}
             /\ pc = "done" =>
                   /\ Skipped
                   /\ ~HasFailed
                   /\ SkipReason = IF PathFilterSkips THEN <<"no-matching-files">>
                                   ELSE <<"title-no-match">>

C18_Witness ==
    /\ prContext # Undefined
    /\ TitleFilterSkips
    /\ ~PathFilterSkips
    /\ inputs.pathFilter # << >>
    /\ pc = "done"
    /\ SkipReason = <<"title-no-match">>
    /\ posts = << >>

\* C19: without a path filter the Context Fetcher holds, after any number of
\* pages, one ChangedFile for each upstream file served so far, in the order
\* served and none twice; it has one page request outstanding while the last
\* page reported a continuation and none once a page reported none.
C19_PagesAccumulatedOnce ==
    (options # Undefined /\ options.pathFilter = << >>) =>
        /\ Len(filesTask.files) = Len(filesTask.served)
        /\ \A i \in 1..Len(filesTask.files) :
              /\ filesTask.files[i].path = filesTask.served[i].filename
              /\ filesTask.files[i].status = filesTask.served[i].status
              /\ filesTask.files[i].additions = filesTask.served[i].additions
              /\ filesTask.files[i].deletions = filesTask.served[i].deletions
        /\ \A i, j \in 1..Len(filesTask.files) :
              filesTask.files[i].path = filesTask.files[j].path => i = j
        /\ filesTask.state = "paging" => calls["listFiles"] = filesTask.pages + 1
        /\ filesTask.state \in {"done", "failed"} => calls["listFiles"] = filesTask.pages
        /\ prContext # Undefined =>
              /\ filesTask.state = "done"
              /\ prContext.changedFiles = filesTask.files

C19_Witness ==
    /\ options # Undefined
    /\ options.pathFilter = << >>
    /\ filesTask.state = "done"
    /\ filesTask.pages = 2
    /\ calls["listFiles"] = 2
    /\ Len(filesTask.served) = 3
    /\ prContext # Undefined
    /\ Len(prContext.changedFiles) = 3

\* the upstream files the page loop is through with, those of them that match
\* the path filter, and those it has asked the contents of
HandledFiles ==
    SubSeq(filesTask.served, 1, Len(filesTask.served) - Len(filesTask.pending))

SurvivingOf(served) ==
    SelectSeq(served, LAMBDA file :
        options.pathFilter = << >> \/ minimatch(file.filename, options.pathFilter))

RequestedFiles ==
    SelectSeq(SurvivingOf(HandledFiles
                          \o (IF filesTask.state = "content"
                              THEN <<Head(filesTask.pending)>> ELSE << >>)),
              LAMBDA file : options.includeContents /\ file.status # "removed")

\* the number of content requests issued for the first i files of the list
RequestsUpTo(i) ==
    Cardinality({ j \in 1..i : filesTask.files[j].status # "removed" })

\* C20: with includeContents set, fetchChangedFiles asks for the contents, at
\* the head sha, of each changed file that survives the path filter and is not
\* removed, once, and of no removed file; every surviving file is in the list
\* whatever its content request gave; a file has contents exactly when its own
\* request returned base64 content; a failed content request is logged as a
\* warning and fails neither the fetch nor the run.  Without includeContents
\* no contents are asked for and no file has any.
C20_ContentFetchPerFile ==
    /\ filesTask.requests =
          [i \in 1..Len(RequestedFiles) |->
              [path |-> RequestedFiles[i].filename, ref |-> pullRequest.head.sha]]
    /\ calls["getContent"] = Len(filesTask.requests)
    /\ filesTask.state # "content" => Len(filesTask.outcomes) = Len(filesTask.requests)
    /\ PathsOf(filesTask.files) =
          [i \in 1..Len(SurvivingOf(HandledFiles)) |-> SurvivingOf(HandledFiles)[i].filename]
    /\ \A i \in 1..Len(filesTask.files) :
          LET file == filesTask.files[i]
              fetched == /\ options.includeContents
                         /\ file.status # "removed"
                         /\ filesTask.outcomes[RequestsUpTo(i)] = "base64"
          IN  /\ fetched => file.contents = <<"contents of ">> \o file.path
              /\ ~fetched => file.contents = UndefinedStr
    /\ \A i \in 1..Len(filesTask.outcomes) :
          filesTask.outcomes[i] = "error" =>
              (<<"Failed to fetch contents for ">> \o filesTask.requests[i].path
                  \o <<": ">> \o ApiError) \in logs
    /\ HasFailed =>
          (pullRequest = Undefined \/ filesTask.state = "failed"
              \/ commentsTask.state = "failed")
    /\ (filesTask.state = "done" /\ commentsTask.state = "done" /\ ~HasFailed) =>
          /\ pc = "filterPath"
          /\ prContext.changedFiles = filesTask.files

C20_Witness ==
    /\ options.includeContents
    /\ filesTask.state = "done"
    /\ pc = "filterPath"
    /\ ~HasFailed
    /\ filesTask.outcomes = <<"error", "base64">>
    /\ Len(prContext.changedFiles) = 3
    /\ prContext.changedFiles[1].contents = UndefinedStr
    /\ prContext.changedFiles[2].status = "removed"
    /\ prContext.changedFiles[3].contents # UndefinedStr

\* the positions in the comments of the PRContext whose id is the id of the
\* comment that triggered the run
TriggerPositions ==
    { i \in 1..Len(prContext.comments) :
        prContext.comments[i].id = eventContext.triggerCommentId }

\* the ids of the comments the two listings served
FetchedIds ==
    { commentsTask.servedIssue[i].id : i \in 1..Len(commentsTask.servedIssue) }
    \cup { commentsTask.servedReview[i].id : i \in 1..Len(commentsTask.servedReview) }

\* C21: in every PRContext a triggerComment is one of its comments and has the
\* id of the comment that triggered the run; there is none when the event
\* carries no comment id or no fetched comment has that id.
C21_TriggerCommentIsMember ==
    prContext # Undefined =>
        /\ prContext.triggerComment # Undefined =>
              /\ eventContext.triggerCommentId # 0
              /\ prContext.triggerComment.id = eventContext.triggerCommentId
              /\ \E i \in TriggerPositions : prContext.comments[i] = prContext.triggerComment
        /\ (eventContext.triggerCommentId = 0
              \/ eventContext.triggerCommentId \notin FetchedIds) =>
              prContext.triggerComment = Undefined

C21_Witness ==
    /\ prContext # Undefined
    /\ Len(prContext.comments) = 2
    /\ prContext.triggerComment # Undefined
    /\ prContext.triggerComment = prContext.comments[2]
    /\ prContext.triggerComment.id = eventContext.triggerCommentId

\* the JSON documents that are an object with a boolean success and string
\* invocationId and conversationId
ValidAcks ==
    { val \in JsonValues :
        /\ val.t = "obj"
        /\ val.f["success"].t = "bool"
        /\ val.f["invocationId"].t = "str"
        /\ val.f["conversationId"].t = "str" }

\* C22: after a 2xx response whose body is a valid acknowledgement, output
\* invocation-id is the invocationId of the body and conversation-id its
\* conversationId, skipped and skip-reason are not set and the run has not
\* failed.
C22_AckSetsOutputs ==
    \A val \in ValidAcks :
        (response # Undefined /\ response.status \in 200..299
            /\ response.text = JsonText(val)) =>
            /\ pc = "done"
            /\ outputs["invocation-id"] = <<val.f["invocationId"].v>>
            /\ outputs["conversation-id"] = <<val.f["conversationId"].v>>
            /\ Unset("skipped")
            /\ Unset("skip-reason")
            /\ ~HasFailed

C22_Witness ==
    /\ pc = "done"
    /\ env = PullRequestEnv
    /\ inputs.signingSecret = << >>
    /\ Len(posts) = 1
    /\ "X-Signature-256" \notin DOMAIN posts[1].headers
    /\ response # Undefined
    /\ response.status = 202
    /\ outputs["invocation-id"] = <<"i1">>
    /\ outputs["conversation-id"] = <<"c1">>

SkipReasons == { <<"no-matching-files">>, <<"title-no-match">>, <<"bot-pr-exists">>,
                 <<"inkeep-bot-comment">> }

\* a skip condition holds in the run: the companion search found a bot pull
\* request, or the PRContext has no file left by the path filter, a title the
\* expression does not match, or a trigger comment of the bot
SkipConditionHolds ==
    \/ existingBotPR # Undefined /\ existingBotPR # Null
    \/ prContext # Undefined /\ (PathFilterSkips \/ TitleFilterSkips \/ BotTriggered)

\* the same, for the conditions the run comes to evaluate: the bot-comment
\* check is not reached when the title expression is invalid
SkipConditionEvaluated ==
    \/ existingBotPR # Undefined /\ existingBotPR # Null
    \/ prContext # Undefined
        /\ (PathFilterSkips \/ TitleFilterSkips \/ (BotTriggered /\ ~TitleFilterThrows))

SkipOutcome ==
    /\ ~HasFailed
    /\ Skipped
    /\ SkipReason \in SkipReasons
    /\ posts = << >>

\* C23 as stated: a run in which a skip condition holds ends without failure,
\* with skipped set and one of the four reasons.
C23_SkipConditionNeverFails ==
    (pc = "done" /\ SkipConditionHolds) => SkipOutcome

\* C23 (amended): a run that comes to evaluate a skip condition that holds ends
\* without failure, with skipped set to true and skip-reason one of the four
\* reasons, and without a dispatch; a run has skipped set only in that way.
C23_EvaluatedSkipNeverFails ==
    /\ (pc = "done" /\ SkipConditionEvaluated) => SkipOutcome
    /\ (~Unset("skipped") \/ ~Unset("skip-reason")) =>
          /\ pc = "done"
          /\ SkipOutcome
          /\ SkipConditionEvaluated

C23_Witness ==
    /\ pc = "done"
    /\ prContext # Undefined
    /\ TitleFilterSkips
    /\ ~PathFilterSkips
    /\ BotTriggered
    /\ SkipReason = <<"title-no-match">>
    /\ ~HasFailed

\* the remote calls a run issues at most once
SingleCalls == {"getIDToken", "tokenExchange", "searchBotPR", "pulls.get", "trigger"}

\* a step of a run that has failed: the failure stays as signalled, no stage is
\* started, nothing is dispatched, no output is set, no single call is issued
\* again, and a listing whose page request failed requests no further page
StepAfterFailure ==
    /\ failed' = failed
    /\ pc' = "done"
    /\ prContext' = prContext
    /\ payload' = payload
    /\ posts' = posts
    /\ outputs' = outputs
    /\ \A k \in SingleCalls : calls'[k] = calls[k]
    /\ filesTask.state = "failed" =>
          /\ filesTask' = filesTask
          /\ calls'["listFiles"] = calls["listFiles"]
    /\ commentsTask.state = "failed" =>
          /\ commentsTask' = commentsTask
          /\ calls'["listComments"] = calls["listComments"]
          /\ calls'["listReviewComments"] = calls["listReviewComments"]

\* C24: a failed run has ended with a non-empty message, every call other than
\* a listing page is issued at most once in a run, and after the failure no
\* later stage is started and no failed call is issued again.
C24_FatalErrorsEndTheRun ==
    /\ [](/\ HasFailed => (pc = "done" /\ failed # << >>)
          /\ \A k \in SingleCalls : calls[k] <= 1)
    /\ [][HasFailed => StepAfterFailure]_vars

C24_Witness ==
    /\ HasFailed
    /\ filesTask.state = "failed"
    /\ calls["listFiles"] = 2
    /\ filesTask.pages = 2
    /\ commentsTask.state = "done"
    /\ Len(commentsTask.comments) = 2
    /\ prContext = Undefined

\* C25: in a dispatched payload every changed file for which the changed-files
\* listing supplied a patch carries that patch.
C25_PatchesDispatched ==
    posts # << >> =>
        \A i \in 1..Len(payload.changedFiles), j \in 1..Len(filesTask.served) :
            (/\ filesTask.served[j].filename = payload.changedFiles[i].path
             /\ filesTask.served[j].patch # UndefinedStr) =>
                /\ payload.changedFiles[i].patch = filesTask.served[j].patch
                /\ Contains(posts[1].body, filesTask.served[j].patch)

\* the calls to the GitHub API
GitHubCalls == {"searchBotPR", "pulls.get", "listFiles", "listComments",
                "listReviewComments", "getContent"}

\* the context fetcher has issued a request
FetcherStarted == \E k \in GitHubCalls \ {"searchBotPR"} : calls[k] > 0

\* C26: the stages of a run follow one another: the authenticator starts after
\* the resolver has returned the event and the project id; no GitHub API call
\* is made without a token; the context fetcher starts after the loop guard
\* found no bot pull request; the payload is built after the context fetcher
\* returned and neither filter ended the run; the bot-comment check decides
\* after the payload is built; the dispatch happens after all of these, in a
\* run that has neither skipped nor failed.
C26_StagesInOrder ==
    /\ (calls["getIDToken"] > 0 \/ githubToken # UndefinedStr) =>
          /\ eventContext # Undefined
          /\ projectId # UndefinedStr
    /\ calls["tokenExchange"] > 0 => calls["getIDToken"] > 0
    /\ (\E k \in GitHubCalls : calls[k] > 0) => githubToken # UndefinedStr
    /\ FetcherStarted => (existingBotPR = Null /\ calls["pulls.get"] = 1)
    /\ prContext # Undefined =>
          /\ pullRequest # Undefined
          /\ filesTask.state = "done"
          /\ commentsTask.state = "done"
    /\ payload # Undefined =>
          /\ prContext # Undefined
          /\ ~PathFilterSkips
          /\ ~TitleFilterSkips
          /\ ~TitleFilterThrows
    /\ (pc \in {"send", "awaitResponse"} \/ SkipReason = <<"inkeep-bot-comment">>
          \/ posts # << >>) =>
          payload # Undefined
    /\ posts # << >> =>
          /\ ~BotTriggered
          /\ Unset("skipped")
          /\ pc \in {"awaitResponse", "done"}
          /\ pc = "awaitResponse" => ~HasFailed
    /\ (HasFailed \/ Skipped) => pc = "done"

C26_Witness ==
    /\ posts # << >>
    /\ inputs.pathFilter # << >>
    /\ inputs.prTitleRegex # << >>
    /\ existingBotPR = Null
    /\ Len(payload.changedFiles) > 0
    /\ Len(payload.comments) > 0
    /\ \A k \in GitHubCalls \ {"getContent"} : calls[k] > 0

\* the requests of the two sub-fetches of the context fetcher
SubFetchCalls == {"listFiles", "listComments", "listReviewComments", "getContent"}

\* C27: no changed-files page, comments page or file content is requested
\* before fetchPullRequest has returned the pull request; every content
\* request names the head sha of that pull request; when fetchPullRequest
\* fails the run fails and none of these requests is ever issued.
C27_MetadataFirst ==
    /\ pullRequest = Undefined =>
          /\ \A k \in SubFetchCalls : calls[k] = 0
          /\ filesTask.state = "idle"
          /\ commentsTask.state = "idle"
    /\ (\E k \in SubFetchCalls : calls[k] > 0) =>
          /\ calls["pulls.get"] = 1
          /\ pullRequest # Undefined
    /\ \A i \in 1..Len(filesTask.requests) :
          /\ filesTask.requests[i].ref = pullRequest.head.sha
          /\ filesTask.requests[i].ref = <<"h3ad">>
    /\ (calls["pulls.get"] > 0 /\ pullRequest = Undefined) =>
          /\ HasFailed
          /\ pc = "done"
          /\ prContext = Undefined

C27_Witness ==
    /\ pullRequest # Undefined
    /\ calls["pulls.get"] = 1
    /\ Len(filesTask.requests) = 2
    /\ calls["getContent"] = 2
    /\ calls["listReviewComments"] = 1
    /\ prContext # Undefined

\* what the two sub-fetches give when run one after the other on what the
\* listings served: the served files that pass the path filter, and the issue
\* comments followed by the review comments
SequentialFiles ==
    LET kept == SurvivingOf(filesTask.served)
    IN  [i \in 1..Len(kept) |-> MapChangedFile(kept[i], FALSE)]

SequentialComments ==
    [i \in 1..Len(commentsTask.servedIssue) |-> MapIssueComment(commentsTask.servedIssue[i])]
    \o [i \in 1..Len(commentsTask.servedReview) |->
            MapReviewComment(commentsTask.servedReview[i])]

SequentialTrigger ==
    LET hits == { i \in 1..Len(SequentialComments) :
                    /\ eventContext.triggerCommentId # 0
                    /\ SequentialComments[i].id = eventContext.triggerCommentId }
    IN  IF hits = {} THEN Undefined
        ELSE SequentialComments[CHOOSE i \in hits : \A j \in hits : j <= i]

\* C28: each listing has at most one page request outstanding, the review
\* comments are listed after the issue comments, and whatever the order in
\* which the pages of the two sub-fetches arrived, the PRContext has the
\* changed files, comments and trigger comment that the two sub-fetches give
\* one after the other: issue comments before review comments, each tagged.
C28_InterleavingIndependent ==
    /\ filesTask.state = "paging" => calls["listFiles"] = filesTask.pages + 1
    /\ filesTask.state \in {"done", "failed"} => calls["listFiles"] = filesTask.pages
    /\ calls["listReviewComments"] > 0 =>
          (commentsTask.state \in {"review", "done", "failed"}
              /\ calls["listComments"] > 0)
    /\ commentsTask.state = "issue" => commentsTask.servedReview = << >>
    /\ prContext # Undefined =>
          /\ filesTask.state = "done"
          /\ commentsTask.state = "done"
          /\ prContext.changedFiles = SequentialFiles
          /\ prContext.comments = SequentialComments
          /\ prContext.triggerComment = SequentialTrigger
          /\ \A i \in 1..Len(prContext.comments) :
                prContext.comments[i].type =
                    IF i <= Len(commentsTask.servedIssue) THEN <<"issue">> ELSE <<"review">>

\* both sub-fetches are under way, each with a page received and one awaited
C28_Witness ==
    /\ pc = "fetching"
    /\ filesTask.state = "paging"
    /\ filesTask.pages = 1
    /\ Len(filesTask.served) > 0
    /\ commentsTask.state = "review"
    /\ Len(commentsTask.servedIssue) > 0
    /\ eventContext.triggerCommentId # 0

\* C29: once a changed-files page or a comments page has failed the run has
\* failed and stays so, whatever the other sub-fetch does before or after: no
\* PRContext is returned, no payload is built, no skip output of a filter or
\* of the bot-comment check is set, and nothing is dispatched.
C29_SubFetchFailureFailsRun ==
    (filesTask.state = "failed" \/ commentsTask.state = "failed") =>
        /\ HasFailed
        /\ failed = ApiError
        /\ pc = "done"
        /\ prContext = Undefined
        /\ payload = Undefined
        /\ Unset("skipped")
        /\ Unset("skip-reason")
        /\ posts = << >>
        /\ calls["trigger"] = 0

\* the comments listing failed and the changed-files listing ran to its end
C29_Witness ==
    /\ commentsTask.state = "failed"
    /\ Len(commentsTask.servedIssue) > 0
    /\ filesTask.state = "done"
    /\ filesTask.pages = 2
    /\ Len(filesTask.files) > 0
    /\ inputs.pathFilter # << >>
    /\ HasFailed

SuccessOutcome ==
    /\ ~HasFailed
    /\ ~Unset("invocation-id")
    /\ ~Unset("conversation-id")
    /\ \A n \in OutputNames \ {"invocation-id", "conversation-id"} : Unset(n)

SkippedOutcome ==
    /\ ~HasFailed
    /\ Skipped
    /\ SkipReason \in SkipReasons
    /\ Unset("invocation-id")
    /\ Unset("conversation-id")
    /\ IF SkipReason = <<"bot-pr-exists">>
       THEN ~Unset("existing-bot-pr-number") /\ ~Unset("existing-bot-pr-url")
       ELSE Unset("existing-bot-pr-number") /\ Unset("existing-bot-pr-url")

FailureOutcome ==
    /\ HasFailed
    /\ \A n \in OutputNames : Unset(n)

\* C30: a run that has ended is a success, a skip or a failure, and only one of
\* them: a success has both ids and no other output, a skip has skipped and
\* its reason, no id, and the bot pull request outputs exactly when the reason
\* is bot-pr-exists, a failure has no output at all; a run that has not ended
\* has set no output and signalled no failure.
C30_OneOutcome ==
    /\ pc = "done" =>
          /\ SuccessOutcome \/ SkippedOutcome \/ FailureOutcome
          /\ ~(SuccessOutcome /\ SkippedOutcome)
          /\ ~(SuccessOutcome /\ FailureOutcome)
          /\ ~(SkippedOutcome /\ FailureOutcome)
    /\ pc # "done" =>
          /\ ~HasFailed
          /\ \A n \in OutputNames : Unset(n)

\* a success on an acknowledgement with the alternate member names
C30_Witness ==
    /\ pc = "done"
    /\ SuccessOutcome
    /\ outputs["invocation-id"] = <<"i2">>
    /\ outputs["conversation-id"] = <<"c2">>
    /\ posts # << >>

====
